---- MODULE Spec2Model ----
(***************************************************************************)
(* A model of rmule's server-list pipeline: the Merge Engine               *)
(* (ServerList::merge_parsed_servers, Server::update_from) and the Fetch   *)
(* Orchestrator (ConfigurationManager::download_servers and                *)
(* auto_update_server_list).                                               *)
(***************************************************************************)
EXTENDS Integers, Sequences, FiniteSets, TLC

\* ---------------------------------------------------------------------
\* Bounds of the model
\* ---------------------------------------------------------------------
MaxIp == 2        \* IP addresses are 1..MaxIp
MaxBatch == 2     \* longest candidate batch handed to a direct merge
MaxClock == 1     \* times::now() ranges over 1..MaxClock; rows were stored at 0
MaxUrls == 3      \* longest list of source URLs

IPs == 1..MaxIp

\* Option<T>: None is the empty tuple, Some(x) the one-element tuple.
None == << >>
Some(x) == <<x>>

\* ---------------------------------------------------------------------
\* ParsedServer (parsing.rs) and the candidates the model draws from
\* ---------------------------------------------------------------------
Variants == {"min", "full"}

\* A decoded server.met record: IP and port are mandatory, the rest optional.
ParsedServer(ip, url, v) ==
    [ source               |-> url,
      ip_addr              |-> ip,
      port                 |-> IF v = "alt" THEN 4242 ELSE 4661,
      name                 |-> IF v = "min" THEN None ELSE Some(IF v = "full" THEN "eMule Sunrise" ELSE "PeerBooter"),
      description          |-> IF v = "min" THEN None ELSE Some(IF v = "full" THEN "d1" ELSE "d2"),
      user_count           |-> IF v = "min" THEN None ELSE Some(IF v = "full" THEN 10 ELSE 11),
      low_id_user_count    |-> IF v = "min" THEN None ELSE Some(IF v = "full" THEN 7 ELSE 8),
      ping                 |-> IF v = "min" THEN None ELSE Some(IF v = "full" THEN 47 ELSE 48),
      country              |-> IF v = "full" THEN Some("md") ELSE None,
      max_user_count       |-> IF v = "min" THEN None ELSE Some(IF v = "full" THEN 500 ELSE 501),
      file_count           |-> IF v = "min" THEN None ELSE Some(IF v = "full" THEN 51 ELSE 52),
      soft_file_limit      |-> IF v = "min" THEN None ELSE Some(IF v = "full" THEN 100 ELSE 102),
      hard_file_limit      |-> IF v = "min" THEN None ELSE Some(IF v = "full" THEN 101 ELSE 103),
      udp_flags            |-> IF v = "min" THEN None ELSE Some(IF v = "full" THEN 1851 ELSE 3),
      version              |-> IF v = "min" THEN None ELSE Some(IF v = "full" THEN "17.15" ELSE "17.16"),
      last_ping_time       |-> IF v = "min" THEN None ELSE Some(IF v = "full" THEN 5 ELSE 6),
      udp_key              |-> IF v = "min" THEN None ELSE Some(IF v = "full" THEN 21 ELSE 22),
      udp_key_ip_addr      |-> IF v = "min" THEN None ELSE Some(IF v = "full" THEN 1 ELSE 2),
      tcp_obfuscation_port |-> IF v = "min" THEN None ELSE Some(IF v = "full" THEN 31 ELSE 32),
      udp_obfuscation_port |-> IF v = "min" THEN None ELSE Some(IF v = "full" THEN 33 ELSE 34),
      dns                  |-> IF v = "min" THEN None ELSE Some(IF v = "full" THEN "a.example" ELSE "b.example"),
      priority             |-> IF v = "min" THEN None ELSE Some(IF v = "full" THEN "High" ELSE "Low"),
      aux_ports_list       |-> IF v = "min" THEN None ELSE Some(IF v = "full" THEN <<4662, 4663>> ELSE << >>),
      fail_count           |-> IF v = "min" THEN None ELSE Some(IF v = "full" THEN 0 ELSE 2) ]

\* The source URL a direct-merge candidate of a given variant comes from.
VariantUrl(v) == IF v = "full" THEN "u2" ELSE "u1"

Candidates == { ParsedServer(ip, VariantUrl(v), v) : ip \in IPs, v \in Variants }

RECURSIVE SeqsUpTo(_, _)
SeqsUpTo(S, n) ==
    IF n = 0 THEN { << >> }
    ELSE LET shorter == SeqsUpTo(S, n - 1)
         IN  shorter \cup { Append(s, x) : s \in { t \in shorter : Len(t) = n - 1 }, x \in S }

Batches == SeqsUpTo(Candidates, MaxBatch)

\* ---------------------------------------------------------------------
\* Server (server.rs)
\* ---------------------------------------------------------------------
\* impl Default for Server: both timestamps are times::now(), every other
\* field is its type's default (0, "", false, 0.0.0.0, None, empty Vec).
ServerDefault(now) ==
    [ created              |-> now,
      updated              |-> now,
      id                   |-> 0,
      source               |-> "",
      active               |-> FALSE,
      ip_addr              |-> 0,
      port                 |-> 0,
      name                 |-> None,
      description          |-> None,
      user_count           |-> None,
      low_id_user_count    |-> None,
      max_user_count       |-> None,
      ping_ms              |-> None,
      file_count           |-> None,
      soft_file_limit      |-> None,
      hard_file_limit      |-> None,
      udp_flags            |-> None,
      version              |-> None,
      last_ping_time       |-> None,
      udp_key              |-> None,
      udp_key_ip_addr      |-> None,
      tcp_obfuscation_port |-> None,
      udp_obfuscation_port |-> None,
      dns_name             |-> None,
      priority             |-> None,
      aux_ports_list       |-> << >>,
      fail_count           |-> None ]

\* Option<Vec<u16>>::unwrap_or_default
UnwrapOrDefault(o) == IF o = None THEN << >> ELSE o[1]

\* An update_from that extends the auxiliary port list instead of replacing it.
UpdateFromExtendsAuxPorts(s, ps) ==
    [ s EXCEPT
        !.source               = ps.source,
        !.port                 = ps.port,
        !.name                 = ps.name,
        !.description          = ps.description,
        !.user_count           = ps.user_count,
        !.low_id_user_count    = ps.low_id_user_count,
        !.max_user_count       = ps.max_user_count,
        !.ping_ms              = ps.ping,
        !.file_count           = ps.file_count,
        !.soft_file_limit      = ps.soft_file_limit,
        !.hard_file_limit      = ps.hard_file_limit,
        !.udp_flags            = ps.udp_flags,
        !.version              = ps.version,
        !.udp_key              = ps.udp_key,
        !.udp_key_ip_addr      = ps.udp_key_ip_addr,
        !.tcp_obfuscation_port = ps.tcp_obfuscation_port,
        !.udp_obfuscation_port = ps.udp_obfuscation_port,
        !.dns_name             = ps.dns,
        !.priority             = ps.priority,
        !.aux_ports_list       = s.aux_ports_list \o UnwrapOrDefault(ps.aux_ports_list),
        !.fail_count           = ps.fail_count ]

\* Server::update_from: every assignment of the method; the assignment of
\* last_ping_time is commented out in the source, so the field is kept.
UpdateFrom(s, ps) ==
    [ s EXCEPT
        !.source               = ps.source,
        !.port                 = ps.port,
        !.name                 = ps.name,
        !.description          = ps.description,
        !.user_count           = ps.user_count,
        !.low_id_user_count    = ps.low_id_user_count,
        !.max_user_count       = ps.max_user_count,
        !.ping_ms              = ps.ping,
        !.file_count           = ps.file_count,
        !.soft_file_limit      = ps.soft_file_limit,
        !.hard_file_limit      = ps.hard_file_limit,
        !.udp_flags            = ps.udp_flags,
        !.version              = ps.version,
        !.udp_key              = ps.udp_key,
        !.udp_key_ip_addr      = ps.udp_key_ip_addr,
        !.tcp_obfuscation_port = ps.tcp_obfuscation_port,
        !.udp_obfuscation_port = ps.udp_obfuscation_port,
        !.dns_name             = ps.dns,
        !.priority             = ps.priority,
        !.aux_ports_list       = UnwrapOrDefault(ps.aux_ports_list),
        !.fail_count           = ps.fail_count ]

\* impl From<&ParsedServer> for Server
ServerFrom(ps, now) ==
    [ UpdateFrom(ServerDefault(now), ps) EXCEPT
        !.id      = 0,
        !.active  = TRUE,
        !.ip_addr = ps.ip_addr ]

\* A position() that never looks at the last element of the list.
PositionSkipsLast(servers, ip) ==
    IF \E i \in 1..(Len(servers) - 1) : servers[i].ip_addr = ip
    THEN CHOOSE i \in 1..(Len(servers) - 1) :
            /\ servers[i].ip_addr = ip
            /\ \A j \in 1..(i - 1) : servers[j].ip_addr # ip
    ELSE 0

\* self.servers.iter().position(|s| *s.ip_addr == ps.ip_addr): the index of
\* the first server with that IP, 0 when there is none.
Position(servers, ip) ==
    IF \E i \in 1..Len(servers) : servers[i].ip_addr = ip
    THEN CHOOSE i \in 1..Len(servers) :
            /\ servers[i].ip_addr = ip
            /\ \A j \in 1..(i - 1) : servers[j].ip_addr # ip
    ELSE 0

\* A loop body that counts an update as an insertion.
MergeOneCountsUpdateAsInsert(acc, ps, now) ==
    LET idx == Position(acc.servers, ps.ip_addr)
    IN  IF idx # 0
        THEN [ servers      |-> [ acc.servers EXCEPT ![idx] = UpdateFrom(@, ps) ],
               num_inserted |-> acc.num_inserted + 1,
               num_updated  |-> acc.num_updated ]
        ELSE [ servers      |-> Append(acc.servers, ServerFrom(ps, now)),
               num_inserted |-> acc.num_inserted + 1,
               num_updated  |-> acc.num_updated ]

\* One iteration of the loop of merge_parsed_servers; the accumulator holds
\* the list and the two counters.
MergeOne(acc, ps, now) ==
    LET idx == Position(acc.servers, ps.ip_addr)
    IN  IF idx # 0
        THEN [ servers      |-> [ acc.servers EXCEPT ![idx] = UpdateFrom(@, ps) ],
               num_inserted |-> acc.num_inserted,
               num_updated  |-> acc.num_updated + 1 ]
        ELSE [ servers      |-> Append(acc.servers, ServerFrom(ps, now)),
               num_inserted |-> acc.num_inserted + 1,
               num_updated  |-> acc.num_updated ]

\* A loop that puts a new Server built from the candidate in the place of
\* the server it matches.
RECURSIVE MergeLoopRebuildsMatched(_, _, _)
MergeLoopRebuildsMatched(acc, batch, now) ==
    IF batch = << >> THEN acc
    ELSE LET ps  == Head(batch)
             idx == Position(acc.servers, ps.ip_addr)
             one == IF idx # 0
                    THEN [ acc EXCEPT !.servers[idx] = ServerFrom(ps, now),
                                      !.num_updated = @ + 1 ]
                    ELSE MergeOne(acc, ps, now)
         IN  MergeLoopRebuildsMatched(one, Tail(batch), now)

\* The loop of merge_parsed_servers over the batch.
RECURSIVE MergeLoop(_, _, _)
MergeLoop(acc, batch, now) ==
    IF batch = << >> THEN acc
    ELSE MergeLoop(MergeOne(acc, Head(batch), now), Tail(batch), now)

\* ServerList::merge_parsed_servers
MergeParsedServers(servers, parsed_servers, now) ==
    MergeLoop([ servers |-> servers, num_inserted |-> 0, num_updated |-> 0 ],
              parsed_servers, now)

\* ---------------------------------------------------------------------
\* A server as ServerList::load_all reads it from the server table
\* ---------------------------------------------------------------------
StoredServer(ip, id) ==
    [ ServerDefault(0) EXCEPT
        !.id             = id,
        !.source         = "manual",
        !.active         = (id = 1),
        !.ip_addr        = ip,
        !.port           = 4661,
        !.name           = Some("old"),
        !.last_ping_time = Some(9),
        !.aux_ports_list = <<4700>>,
        !.fail_count     = Some(1) ]

\* The collections a run starts from: the server table is empty, or holds
\* one or two rows.
InitialCollections ==
    { << >>, << StoredServer(1, 1) >>, << StoredServer(2, 1), StoredServer(1, 2) >> }

\* ---------------------------------------------------------------------
\* The fetch orchestrator (configuration_manager.rs)
\* ---------------------------------------------------------------------
UrlNames == << "u1", "u2", "u3", "u4", "u5", "u6" >>

\* The active addresses handed to auto_update_server_list: n distinct URLs.
UrlList(n) == [ i \in 1..n |-> UrlNames[i] ]

\* What a server.met body decodes to (parse_servers), by file and source URL.
MetFile(f, url) ==
    CASE f = 1 -> << ParsedServer(MaxIp, url, "full"), ParsedServer(1, url, "min") >>
      [] f = 2 -> << ParsedServer(1, url, "full") >>
      [] f = 3 -> << ParsedServer(1, url, "min"), ParsedServer(1, url, "full") >>

\* What the network and the decoder hold in store for one fetch unit:
\*   transport_error  send() or bytes() fails (timeout included)
\*   empty_body       the response has no bytes
\*   decode_error     parse_servers fails after decoding the records of file f
\*   panic            the task aborts, its JoinHandle yields a JoinError
\*   met              the body decodes to file f
Responses ==
    { [ kind |-> k, file |-> 1 ] : k \in { "transport_error", "empty_body", "decode_error", "panic" } }
        \cup { [ kind |-> "met", file |-> f ] : f \in 1..3 }

Ok(v) == [ ok |-> TRUE, value |-> v ]
Err(e) == [ ok |-> FALSE, value |-> e ]

\* A fetch unit that hands on the records decoded before a decode error.
UnitOutputKeepsPartialDecode(resp, url) ==
    CASE resp.kind = "transport_error" -> Ok(<< >>)
      [] resp.kind = "empty_body"      -> Ok(<< >>)
      [] resp.kind = "decode_error"    -> Ok(MetFile(resp.file, url))
      [] resp.kind = "panic"           -> Err("JoinError")
      [] resp.kind = "met"             -> Ok(MetFile(resp.file, url))

\* The output of the JoinHandle of one spawned task: download_server_met
\* wrapped in the closure of download_servers, which turns an Err into an
\* empty Vec; download_server_met itself turns an empty body and a failed
\* parse_servers into an empty Vec.
UnitOutput(resp, url) ==
    CASE resp.kind = "transport_error" -> Ok(<< >>)
      [] resp.kind = "empty_body"      -> Ok(<< >>)
      [] resp.kind = "decode_error"    -> Ok(<< >>)
      [] resp.kind = "panic"           -> Err("JoinError")
      [] resp.kind = "met"             -> Ok(MetFile(resp.file, url))

\* A join that hands the outputs on in the order the tasks completed.
JoinAllInCompletionOrder(outs, order) == [ k \in 1..Len(order) |-> outs[order[k]] ]

\* futures::future::join_all: the outputs in the order of the tasks.
JoinAll(outs, order) == [ i \in 1..Len(outs) |-> outs[i] ]

\* .into_iter().filter_map(Result::ok).flatten().collect()
RECURSIVE FlattenOk(_)
FlattenOk(results) ==
    IF results = << >> THEN << >>
    ELSE (IF Head(results).ok THEN Head(results).value ELSE << >>) \o FlattenOk(Tail(results))

\* Insert x behind every element that does not compare greater than it.
RECURSIVE InsertByIp(_, _)
InsertByIp(sorted, x) ==
    IF sorted = << >> THEN << x >>
    ELSE IF Head(sorted).ip_addr <= x.ip_addr
         THEN << Head(sorted) >> \o InsertByIp(Tail(sorted), x)
         ELSE << x >> \o sorted

RECURSIVE SortLoop(_, _)
SortLoop(sorted, rest) ==
    IF rest = << >> THEN sorted
    ELSE SortLoop(InsertByIp(sorted, Head(rest)), Tail(rest))

\* A sort that leaves the list as it is.
SortByIpLeavesOrder(list) == list

\* all_parsed_servers.sort_by(|a, b| a.ip_addr.cmp(&b.ip_addr)): a stable sort
SortByIp(list) == SortLoop(<< >>, list)

RECURSIVE DedupLoopKeepsLast(_, _)
DedupLoopKeepsLast(kept, rest) ==
    IF rest = << >> THEN kept
    ELSE IF kept # << >> /\ kept[Len(kept)].ip_addr = Head(rest).ip_addr
         THEN DedupLoopKeepsLast([ kept EXCEPT ![Len(kept)] = Head(rest) ], Tail(rest))
         ELSE DedupLoopKeepsLast(Append(kept, Head(rest)), Tail(rest))

\* A dedup that keeps the last element of a run of equal IPs.
DedupByIpKeepsLast(list) == DedupLoopKeepsLast(<< >>, list)

RECURSIVE DedupLoop(_, _)
DedupLoop(kept, rest) ==
    IF rest = << >> THEN kept
    ELSE IF kept # << >> /\ kept[Len(kept)].ip_addr = Head(rest).ip_addr
         THEN DedupLoop(kept, Tail(rest))
         ELSE DedupLoop(Append(kept, Head(rest)), Tail(rest))

\* all_parsed_servers.dedup_by(|a, b| a.ip_addr == b.ip_addr): an element
\* equal to the last retained one is removed.
DedupByIp(list) == DedupLoop(<< >>, list)

\* A wait that ends as soon as one task has resolved.
AnyResolved(ts) == \E i \in 1..Len(ts) : ts[i] = "resolved"

\* block_on(join_all(tasks)) returns when every task has resolved.
AllResolved(ts) == \A i \in 1..Len(ts) : ts[i] = "resolved"

\* ---------------------------------------------------------------------
\* ServerList::save_all (server.rs)
\* ---------------------------------------------------------------------
RowIds(rows) == { r.id : r \in rows }

\* conn.last_insert_rowid() after an INSERT: one more than the largest rowid.
NextRowId(rows) ==
    IF rows = {} THEN 1
    ELSE (CHOOSE m \in RowIds(rows) : \A n \in RowIds(rows) : n <= m) + 1

\* enum ServerPriority { Low = 0, Normal = 1, High = 2 }: the discriminants.
ServerPriorityDiscriminant(p) ==
    CASE p = "Low"    -> 0
      [] p = "Normal" -> 1
      [] p = "High"   -> 2

\* impl ToSql for ServerPriority: let n = *self as u32
ServerPriorityToSql(p) == ServerPriorityDiscriminant(p)

\* The columns of a server as the params of insert_server and update_server
\* bind them: the priority goes through ToSql, None is NULL.
ServerRow(server) ==
    [ server EXCEPT !.priority = IF server.priority = None THEN None
                                 ELSE Some(ServerPriorityToSql(server.priority[1])) ]

\* UPDATE server SET ... WHERE id: every column but created and ip_addr.
UpdateRow(row, server, now) ==
    [ ServerRow(server) EXCEPT !.created = row.created, !.ip_addr = row.ip_addr, !.updated = now ]

\* The loop of save_all from server k on, inside the transaction; fail_at is
\* the server whose statement fails (0: none).
RECURSIVE SaveLoop(_, _, _, _, _)
SaveLoop(list, rows, k, fail_at, now) ==
    IF k > Len(list) THEN [ servers |-> list, rows |-> rows, ok |-> TRUE ]
    ELSE IF list[k].id = 0
    THEN LET stamped == [ list EXCEPT ![k].created = now, ![k].updated = now ]
         IN  IF fail_at = k
             THEN [ servers |-> stamped, rows |-> rows, ok |-> FALSE ]
             ELSE LET id   == NextRowId(rows)
                      done == [ stamped EXCEPT ![k].id = id ]
                  IN  SaveLoop(done, rows \cup { ServerRow(done[k]) }, k + 1, fail_at, now)
    ELSE LET stamped == [ list EXCEPT ![k].updated = now ]
             hit     == { r \in rows : r.id = list[k].id }
         IN  IF fail_at = k \/ Cardinality(hit) # 1
             THEN [ servers |-> stamped, rows |-> rows, ok |-> FALSE ]
             ELSE LET row == CHOOSE r \in hit : TRUE
                  IN  SaveLoop(stamped, (rows \ hit) \cup { UpdateRow(row, stamped[k], now) },
                               k + 1, fail_at, now)

\* ServerList::save_all: conn.transaction().unwrap() panics when the
\* transaction cannot be begun (fail_at = -1), before anything is touched.
\* The rows are committed only when the loop and the commit succeed
\* (fail_at = Len + 1: the commit fails); the in-memory servers keep what
\* the loop assigned either way.
SaveAll(list, rows, fail_at, now) ==
    IF fail_at = -1
    THEN [ servers |-> list, rows |-> rows, ok |-> FALSE, panicked |-> TRUE ]
    ELSE LET r == SaveLoop(list, rows, 1, fail_at, now)
         IN  IF r.ok /\ fail_at # Len(list) + 1
             THEN [ servers |-> r.servers, rows |-> r.rows, ok |-> TRUE, panicked |-> FALSE ]
             ELSE [ servers |-> r.servers, rows |-> rows, ok |-> FALSE, panicked |-> FALSE ]

\* ---------------------------------------------------------------------
\* server.met decoding (parsing.rs): the cursor reads
\* ---------------------------------------------------------------------
\* The input is a sequence of bytes and pos the number of bytes the cursor
\* has consumed.  A read comes to "ok" with a value and the new position,
\* to "err" (the Err the function returns) or to "panic".
POk(v, p) == [ kind |-> "ok", value |-> v, pos |-> p ]
PErr(e, arg) == [ kind |-> "err", value |-> << e, arg >>, pos |-> 0 ]
PPanic(m) == [ kind |-> "panic", value |-> m, pos |-> 0 ]

\* a & b on unsigned integers.
RECURSIVE BitAnd(_, _)
BitAnd(a, b) ==
    IF a = 0 \/ b = 0 THEN 0
    ELSE (a % 2) * (b % 2) + 2 * BitAnd(a \div 2, b \div 2)

\* input.read_u8()
ReadU8(input, pos) ==
    IF pos + 1 <= Len(input) THEN POk(input[pos + 1], pos + 1)
    ELSE PErr("UnexpectedEof", 0)

\* input.read_u16::<LittleEndian>()
ReadU16Le(input, pos) ==
    IF pos + 2 <= Len(input)
    THEN POk(input[pos + 1] + 256 * input[pos + 2], pos + 2)
    ELSE PErr("UnexpectedEof", 0)

\* input.read_u32::<LittleEndian>()
ReadU32Le(input, pos) ==
    IF pos + 4 <= Len(input)
    THEN POk(input[pos + 1] + 256 * input[pos + 2] + 65536 * input[pos + 3]
             + 16777216 * input[pos + 4], pos + 4)
    ELSE PErr("UnexpectedEof", 0)

\* input.read_u32::<BigEndian>()
ReadU32Be(input, pos) ==
    IF pos + 4 <= Len(input)
    THEN POk(16777216 * input[pos + 1] + 65536 * input[pos + 2] + 256 * input[pos + 3]
             + input[pos + 4], pos + 4)
    ELSE PErr("UnexpectedEof", 0)

\* A continuation byte of a UTF-8 sequence.
IsCont(b) == b >= 128 /\ b <= 191

\* String::from_utf8 accepts buf from byte i on: well-formed UTF-8 only
\* (no overlong forms, no surrogates, nothing above U+10FFFF).
RECURSIVE Utf8From(_, _)
Utf8From(buf, i) ==
    IF i > Len(buf) THEN TRUE
    ELSE LET b == buf[i]
             has(n) == i + n <= Len(buf)
         IN  CASE b < 128 -> Utf8From(buf, i + 1)
               [] b >= 194 /\ b <= 223 ->
                    has(1) /\ IsCont(buf[i + 1]) /\ Utf8From(buf, i + 2)
               [] b >= 224 /\ b <= 239 ->
                    /\ has(2)
                    /\ IsCont(buf[i + 1]) /\ IsCont(buf[i + 2])
                    /\ (b = 224 => buf[i + 1] >= 160)
                    /\ (b = 237 => buf[i + 1] <= 159)
                    /\ Utf8From(buf, i + 3)
               [] b >= 240 /\ b <= 244 ->
                    /\ has(3)
                    /\ IsCont(buf[i + 1]) /\ IsCont(buf[i + 2]) /\ IsCont(buf[i + 3])
                    /\ (b = 240 => buf[i + 1] >= 144)
                    /\ (b = 244 => buf[i + 1] <= 143)
                    /\ Utf8From(buf, i + 4)
               [] OTHER -> FALSE

\* A read_string that takes the bytes that are left when fewer than length
\* remain (read in place of read_exact).
ReadStringShort(input, pos, length) ==
    LET end == IF pos + length > Len(input) THEN Len(input) ELSE pos + length
        buf == SubSeq(input, pos + 1, end)
    IN  IF Utf8From(buf, 1) THEN POk(buf, end) ELSE PErr("FromUtf8Error", 0)

\* read_string: read_exact of length bytes, then String::from_utf8.
ReadString(input, pos, length) ==
    IF pos + length > Len(input) THEN PErr("UnexpectedEof", 0)
    ELSE LET buf == SubSeq(input, pos + 1, pos + length)
         IN  IF Utf8From(buf, 1) THEN POk(buf, pos + length)
             ELSE PErr("FromUtf8Error", 0)

\* format!("{}", n) for an unsigned integer, as bytes.
RECURSIVE Decimal(_)
Decimal(n) ==
    IF n < 10 THEN << 48 + n >>
    ELSE Append(Decimal(n \div 10), 48 + (n % 10))

\* ---------------------------------------------------------------------
\* StringExtensions::split_comma_str_to_vec::<u16> (utils.rs)
\* ---------------------------------------------------------------------
\* str::split(','): the pieces between the commas, empty pieces included.
RECURSIVE SplitComma(_, _, _)
SplitComma(s, i, piece) ==
    IF i > Len(s) THEN << piece >>
    ELSE IF s[i] = 44 THEN << piece >> \o SplitComma(s, i + 1, << >>)
    ELSE SplitComma(s, i + 1, Append(piece, s[i]))

\* s.trim().is_empty() for the ASCII white space: tab, LF, VT, FF, CR, space.
TrimIsEmpty(s) == \A i \in 1..Len(s) : s[i] \in { 9, 10, 11, 12, 13, 32 }

\* The value of a run of decimal digits; -1 when a byte is not a digit.
RECURSIVE DigitsValue(_, _, _)
DigitsValue(s, i, acc) ==
    IF i > Len(s) THEN acc
    ELSE IF s[i] < 48 \/ s[i] > 57 THEN -1
    ELSE DigitsValue(s, i + 1, 10 * acc + (s[i] - 48))

\* str::parse::<u16>: an optional '+', then one or more digits, at most
\* u16::MAX; no white space, no sign '-'.
ParseU16(s) ==
    LET digits == IF Len(s) > 0 /\ s[1] = 43 THEN Tail(s) ELSE s
        v      == DigitsValue(digits, 1, 0)
    IN  IF Len(digits) = 0 \/ v < 0 \/ v > 65535 THEN PErr("ParseIntError", 0)
        ELSE POk(v, 0)

\* The loop of split_comma_str_to_vec from piece k on.
RECURSIVE SplitLoop(_, _, _)
SplitLoop(pieces, k, result) ==
    IF k > Len(pieces) THEN POk(result, 0)
    ELSE IF TrimIsEmpty(pieces[k]) THEN SplitLoop(pieces, k + 1, result)
    ELSE LET r == ParseU16(pieces[k])
         IN  IF r.kind = "ok" THEN SplitLoop(pieces, k + 1, Append(result, r.value))
             ELSE PErr("Cannot parse value", 0)

SplitCommaStrToVec(s) == SplitLoop(SplitComma(s, 1, << >>), 1, << >>)

\* ---------------------------------------------------------------------
\* ServerUdpFlags and ServerPriority (server.rs)
\* ---------------------------------------------------------------------
\* The bits of the eight flags of ServerUdpFlags.
ServerUdpFlagBits == { 1, 2, 8, 16, 32, 256, 512, 1024 }

RECURSIVE SumOf(_)
SumOf(S) == IF S = {} THEN 0 ELSE LET x == CHOOSE y \in S : TRUE IN x + SumOf(S \ { x })

\* ServerUdpFlags::all().bits
AllFlagBits == SumOf(ServerUdpFlagBits)

\* A conversion that refuses a value with a bit outside the eight flags
\* (from_bits in place of from_bits_truncate).
ServerUdpFlagsFromBits(value) ==
    IF BitAnd(value, AllFlagBits) = value THEN POk(value, 0)
    ELSE PErr("contains extra bits", value)

\* impl From<u32> for ServerUdpFlags: from_bits_truncate; the value is the
\* bits field.  try_from goes through From and cannot fail.
ServerUdpFlagsTryFrom(value) == POk(BitAnd(value, AllFlagBits), 0)

\* A conversion by the discriminants of the enum: 0 Low, 1 Normal, 2 High.
ServerPriorityFromDiscriminant(value) ==
    CASE value = 0 -> POk("Low", 0)
      [] value = 1 -> POk("Normal", 0)
      [] value = 2 -> POk("High", 0)
      [] OTHER     -> PErr("outside the expected range", 0)

\* impl TryFrom<u32> for ServerPriority, through TryFrom<i64>.
ServerPriorityTryFrom(value) ==
    CASE value = 0 -> POk("Normal", 0)
      [] value = 1 -> POk("High", 0)
      [] value = 2 -> POk("Low", 0)
      [] OTHER     -> PErr("outside the expected range", 0)

\* impl FromSql for ServerPriority: try_from(n), an Err is OutOfRange(n).
ServerPriorityFromSql(n) ==
    LET sp == ServerPriorityTryFrom(n)
    IN  IF sp.kind = "ok" THEN sp ELSE PErr("OutOfRange", n)

\* Server::try_from(row): the priority column goes through FromSql, NULL
\* is None; the other columns are taken over.
ServerFromRow(row) ==
    IF row.priority = None THEN POk(row, 0)
    ELSE LET sp == ServerPriorityFromSql(row.priority[1])
         IN  IF sp.kind = "ok" THEN POk([ row EXCEPT !.priority = Some(sp.value) ], 0)
             ELSE sp

\* ServerList::load_all: SELECT * FROM server, the rows in rowid order;
\* the first row that does not convert ends the load with its error.
RECURSIVE LoadRows(_, _)
LoadRows(loaded, rows) ==
    IF rows = {} THEN POk(loaded, 0)
    ELSE LET row == CHOOSE r \in rows : \A q \in rows : r.id <= q.id
             sv  == ServerFromRow(row)
         IN  IF sv.kind = "ok" THEN LoadRows(Append(loaded, sv.value), rows \ { row })
             ELSE sv

LoadAll(rows) == LoadRows(<< >>, rows)

\* ---------------------------------------------------------------------
\* parse_tag (parsing.rs)
\* ---------------------------------------------------------------------
NoTag == [ tag |-> "NoTag", value |-> 0 ]

\* The arms of `match numeric_tag_name`: the tag a numeric name stands for
\* and the kind of value its arm unwraps; "NoTag" for every other name.
NumericTag(n) ==
    CASE n = 1   -> [ tag |-> "ServerName",         wants |-> "string" ]
      [] n = 11  -> [ tag |-> "Description",        wants |-> "string" ]
      [] n = 12  -> [ tag |-> "Ping",               wants |-> "numeric" ]
      [] n = 13  -> [ tag |-> "FailCount",          wants |-> "numeric" ]
      [] n = 14  -> [ tag |-> "Preference",         wants |-> "numeric" ]
      [] n = 133 -> [ tag |-> "Dns",                wants |-> "string" ]
      [] n = 135 -> [ tag |-> "MaxUsers",           wants |-> "numeric" ]
      [] n = 136 -> [ tag |-> "SoftFiles",          wants |-> "numeric" ]
      [] n = 137 -> [ tag |-> "HardFiles",          wants |-> "numeric" ]
      [] n = 144 -> [ tag |-> "LastPingTime",       wants |-> "numeric" ]
      [] n = 145 -> [ tag |-> "Version",            wants |-> "either" ]
      [] n = 146 -> [ tag |-> "UDPFlags",           wants |-> "numeric" ]
      [] n = 147 -> [ tag |-> "AuxPortsList",       wants |-> "string" ]
      [] n = 148 -> [ tag |-> "LowIdUserCount",     wants |-> "numeric" ]
      [] n = 149 -> [ tag |-> "UdpKey",             wants |-> "numeric" ]
      [] n = 150 -> [ tag |-> "UdpKeyIpAddr",       wants |-> "numeric" ]
      [] n = 151 -> [ tag |-> "TcpObfuscationPort", wants |-> "numeric" ]
      [] n = 152 -> [ tag |-> "UdpObfuscationPort", wants |-> "numeric" ]
      [] OTHER   -> [ tag |-> "NoTag",              wants |-> "nothing" ]

\* The arms of `match textual_tag_name.as_deref()`: "users", "lowusers",
\* "files", "maxusers", "country"; "NoTag" for every other name.
TextualTag(s) ==
    CASE s = << 117, 115, 101, 114, 115 >> ->
            [ tag |-> "UserCount",      wants |-> "numeric" ]
      [] s = << 108, 111, 119, 117, 115, 101, 114, 115 >> ->
            [ tag |-> "LowIdUserCount", wants |-> "numeric" ]
      [] s = << 102, 105, 108, 101, 115 >> ->
            [ tag |-> "FileCount",      wants |-> "numeric" ]
      [] s = << 109, 97, 120, 117, 115, 101, 114, 115 >> ->
            [ tag |-> "MaxUsers",       wants |-> "numeric" ]
      [] s = << 99, 111, 117, 110, 116, 114, 121 >> ->
            [ tag |-> "Country",        wants |-> "string" ]
      [] OTHER ->
            [ tag |-> "NoTag",          wants |-> "nothing" ]

\* The name of a tag after its type byte: one byte when the type byte had
\* its high bit set (short) or when tag_name_length is 1, a string of
\* tag_name_length bytes otherwise.
ReadTagName(input, pos, short) ==
    IF short
    THEN LET n == ReadU8(input, pos)
         IN  IF n.kind # "ok" THEN n
             ELSE POk([ numeric_tag_name |-> Some(n.value), textual_tag_name |-> None ], n.pos)
    ELSE LET tag_name_length == ReadU16Le(input, pos)
         IN  IF tag_name_length.kind # "ok" THEN tag_name_length
             ELSE IF tag_name_length.value = 1
             THEN LET n == ReadU8(input, tag_name_length.pos)
                  IN  IF n.kind # "ok" THEN n
                      ELSE POk([ numeric_tag_name |-> Some(n.value),
                                 textual_tag_name |-> None ], n.pos)
             ELSE LET s == ReadString(input, tag_name_length.pos, tag_name_length.value)
                  IN  IF s.kind # "ok" THEN s
                      ELSE POk([ numeric_tag_name |-> None,
                                 textual_tag_name |-> Some(s.value) ], s.pos)

\* The value of a tag: type 2 is a string behind its u16 length, type 3 a
\* u32; every other type is an error.
ReadTagValue(input, pos, tag_type) ==
    IF tag_type = 2
    THEN LET string_len == ReadU16Le(input, pos)
         IN  IF string_len.kind # "ok" THEN string_len
             ELSE LET s == ReadString(input, string_len.pos, string_len.value)
                  IN  IF s.kind # "ok" THEN s
                      ELSE POk([ string_tag_value |-> Some(s.value),
                                 numeric_tag_value |-> None ], s.pos)
    ELSE IF tag_type = 3
    THEN LET n == ReadU32Le(input, pos)
         IN  IF n.kind # "ok" THEN n
             ELSE POk([ string_tag_value |-> None, numeric_tag_value |-> Some(n.value) ], n.pos)
    ELSE PErr("Invalid tag type", 0)

\* Arms that narrow the obfuscation ports with `as u16` in place of
\* try_into: the value modulo 65536.
ArmValueTruncatesPorts(tag, val) ==
    CASE tag = "Version" /\ val.string_tag_value = None ->
            LET major == val.numeric_tag_value[1] \div 65536
                minor == BitAnd(val.numeric_tag_value[1], 65535)
            IN  POk(Decimal(major) \o << 46 >> \o Decimal(minor), 0)
      [] tag = "Version" /\ val.string_tag_value # None ->
            POk(val.string_tag_value[1], 0)
      [] tag = "AuxPortsList" -> SplitCommaStrToVec(val.string_tag_value[1])
      [] tag \in { "TcpObfuscationPort", "UdpObfuscationPort" } ->
            POk(val.numeric_tag_value[1] % 65536, 0)
      [] tag \in { "ServerName", "Description", "Dns", "Country" } ->
            POk(val.string_tag_value[1], 0)
      [] OTHER -> POk(val.numeric_tag_value[1], 0)

\* What the arm of a recognised tag makes of the unwrapped value: the
\* version number is formatted, the port list is split, the obfuscation
\* ports are narrowed to u16.
ArmValue(tag, val) ==
    CASE tag = "Version" /\ val.string_tag_value = None ->
            LET major == val.numeric_tag_value[1] \div 65536
                minor == BitAnd(val.numeric_tag_value[1], 65535)
            IN  POk(Decimal(major) \o << 46 >> \o Decimal(minor), 0)
      [] tag = "Version" /\ val.string_tag_value # None ->
            POk(val.string_tag_value[1], 0)
      [] tag = "AuxPortsList" -> SplitCommaStrToVec(val.string_tag_value[1])
      [] tag \in { "TcpObfuscationPort", "UdpObfuscationPort" } ->
            IF val.numeric_tag_value[1] <= 65535 THEN POk(val.numeric_tag_value[1], 0)
            ELSE PErr("TryFromIntError", 0)
      [] tag \in { "ServerName", "Description", "Dns", "Country" } ->
            POk(val.string_tag_value[1], 0)
      [] OTHER -> POk(val.numeric_tag_value[1], 0)

\* `let tag = match numeric_tag_name { ... }`: an arm whose value is of the
\* other kind panics in unwrap_or_else.
ResolveTag(name, val) ==
    LET row == IF name.numeric_tag_name # None THEN NumericTag(name.numeric_tag_name[1])
               ELSE TextualTag(name.textual_tag_name[1])
    IN  IF row.tag = "NoTag" THEN POk(NoTag, 0)
        ELSE IF \/ row.wants = "string" /\ val.string_tag_value = None
                \/ row.wants = "numeric" /\ val.numeric_tag_value = None
        THEN PPanic(row.tag)
        ELSE LET v == ArmValue(row.tag, val)
             IN  IF v.kind # "ok" THEN v
                 ELSE POk([ tag |-> row.tag, value |-> v.value ], 0)

ParseTag(input, pos) ==
    LET t == ReadU8(input, pos)
    IN  IF t.kind # "ok" THEN t
        ELSE LET short    == BitAnd(t.value, 128) # 0
                 tag_type == IF short THEN BitAnd(t.value, 127) ELSE t.value
                 name     == ReadTagName(input, t.pos, short)
             IN  IF name.kind # "ok" THEN name
                 ELSE LET val == ReadTagValue(input, name.pos, tag_type)
                      IN  IF val.kind # "ok" THEN val
                          ELSE LET tag == ResolveTag(name.value, val.value)
                               IN  IF tag.kind # "ok" THEN tag
                                   ELSE POk(tag.value, val.pos)

\* ---------------------------------------------------------------------
\* parse_server and parse_servers (parsing.rs)
\* ---------------------------------------------------------------------
\* A ParsedServer that starts with an empty country in place of none.
NewParsedServerWithCountry(url, ip_addr, port) ==
    [ source |-> url, ip_addr |-> ip_addr, port |-> port,
      name |-> None, description |-> None, user_count |-> None,
      low_id_user_count |-> None, ping |-> None, country |-> Some(<< >>),
      max_user_count |-> None, file_count |-> None, soft_file_limit |-> None,
      hard_file_limit |-> None, udp_flags |-> None, version |-> None,
      last_ping_time |-> None, udp_key |-> None, udp_key_ip_addr |-> None,
      tcp_obfuscation_port |-> None, udp_obfuscation_port |-> None,
      dns |-> None, priority |-> None, aux_ports_list |-> None,
      fail_count |-> None ]

\* The ParsedServer parse_server starts from: every optional field None.
NewParsedServer(url, ip_addr, port) ==
    [ source |-> url, ip_addr |-> ip_addr, port |-> port,
      name |-> None, description |-> None, user_count |-> None,
      low_id_user_count |-> None, ping |-> None, country |-> None,
      max_user_count |-> None, file_count |-> None, soft_file_limit |-> None,
      hard_file_limit |-> None, udp_flags |-> None, version |-> None,
      last_ping_time |-> None, udp_key |-> None, udp_key_ip_addr |-> None,
      tcp_obfuscation_port |-> None, udp_obfuscation_port |-> None,
      dns |-> None, priority |-> None, aux_ports_list |-> None,
      fail_count |-> None ]

\* The field of ParsedServer the arm of `match tag` assigns.
TagField(tag) ==
    CASE tag = "ServerName"         -> "name"
      [] tag = "Description"        -> "description"
      [] tag = "Ping"               -> "ping"
      [] tag = "MaxUsers"           -> "max_user_count"
      [] tag = "SoftFiles"          -> "soft_file_limit"
      [] tag = "HardFiles"          -> "hard_file_limit"
      [] tag = "Version"            -> "version"
      [] tag = "FileCount"          -> "file_count"
      [] tag = "UserCount"          -> "user_count"
      [] tag = "LowIdUserCount"     -> "low_id_user_count"
      [] tag = "Country"            -> "country"
      [] tag = "UDPFlags"           -> "udp_flags"
      [] tag = "LastPingTime"       -> "last_ping_time"
      [] tag = "UdpKey"             -> "udp_key"
      [] tag = "UdpKeyIpAddr"       -> "udp_key_ip_addr"
      [] tag = "TcpObfuscationPort" -> "tcp_obfuscation_port"
      [] tag = "UdpObfuscationPort" -> "udp_obfuscation_port"
      [] tag = "Preference"         -> "priority"
      [] tag = "Dns"                -> "dns"
      [] tag = "AuxPortsList"       -> "aux_ports_list"
      [] tag = "FailCount"          -> "fail_count"

\* A match in which the NoTag arm takes the name away again.
ApplyTagNoTagResetsName(server, tag) ==
    CASE tag.tag = "NoTag" -> POk([ server EXCEPT !.name = None ], 0)
      [] tag.tag = "UDPFlags" ->
            LET f == ServerUdpFlagsTryFrom(tag.value)
            IN  IF f.kind # "ok" THEN f
                ELSE POk([ server EXCEPT !.udp_flags = Some(f.value) ], 0)
      [] tag.tag = "Preference" ->
            LET p == ServerPriorityTryFrom(tag.value)
            IN  IF p.kind # "ok" THEN p
                ELSE POk([ server EXCEPT !.priority = Some(p.value) ], 0)
      [] OTHER -> POk([ server EXCEPT ![TagField(tag.tag)] = Some(tag.value) ], 0)

\* `match tag` in parse_server: NoTag assigns nothing, every other tag
\* assigns Some(value) to its field; the flags and the priority go through
\* try_from first.
ApplyTag(server, tag) ==
    CASE tag.tag = "NoTag" -> POk(server, 0)
      [] tag.tag = "UDPFlags" ->
            LET f == ServerUdpFlagsTryFrom(tag.value)
            IN  IF f.kind # "ok" THEN f
                ELSE POk([ server EXCEPT !.udp_flags = Some(f.value) ], 0)
      [] tag.tag = "Preference" ->
            LET p == ServerPriorityTryFrom(tag.value)
            IN  IF p.kind # "ok" THEN p
                ELSE POk([ server EXCEPT !.priority = Some(p.value) ], 0)
      [] OTHER -> POk([ server EXCEPT ![TagField(tag.tag)] = Some(tag.value) ], 0)

\* A loop in which a tag is assigned only to a field that is still None:
\* the first tag of a field wins.
RECURSIVE TagLoopFirstWins(_, _, _, _)
TagLoopFirstWins(input, pos, remaining, server) ==
    IF remaining = 0 THEN POk(server, pos)
    ELSE LET tag == ParseTag(input, pos)
         IN  IF tag.kind # "ok" THEN tag
             ELSE LET s == ApplyTag(server, tag.value)
                  IN  IF s.kind # "ok" THEN s
                      ELSE IF tag.value.tag # "NoTag" /\ server[TagField(tag.value.tag)] # None
                      THEN TagLoopFirstWins(input, tag.pos, remaining - 1, server)
                      ELSE TagLoopFirstWins(input, tag.pos, remaining - 1, s.value)

\* `for _ in 0..tag_count`: the tags still to read, one after the other.
RECURSIVE TagLoop(_, _, _, _)
TagLoop(input, pos, remaining, server) ==
    IF remaining = 0 THEN POk(server, pos)
    ELSE LET tag == ParseTag(input, pos)
         IN  IF tag.kind # "ok" THEN tag
             ELSE LET s == ApplyTag(server, tag.value)
                  IN  IF s.kind # "ok" THEN s
                      ELSE TagLoop(input, tag.pos, remaining - 1, s.value)

ParseServer(url, input, pos) ==
    LET ip_addr == ReadU32Be(input, pos)
    IN  IF ip_addr.kind # "ok" THEN ip_addr
        ELSE LET port == ReadU16Le(input, ip_addr.pos)
             IN  IF port.kind # "ok" THEN port
                 ELSE LET tag_count == ReadU32Le(input, port.pos)
                      IN  IF tag_count.kind # "ok" THEN tag_count
                          ELSE TagLoop(input, tag_count.pos, tag_count.value,
                                       NewParsedServer(url, ip_addr.value, port.value))

\* A loop that hands back the records decoded before a record failed.
RECURSIVE ServerLoopKeepsDecoded(_, _, _, _, _)
ServerLoopKeepsDecoded(url, input, pos, remaining, servers) ==
    IF remaining = 0 THEN POk(servers, pos)
    ELSE LET s == ParseServer(url, input, pos)
         IN  IF s.kind # "ok" THEN POk(servers, pos)
             ELSE ServerLoopKeepsDecoded(url, input, s.pos, remaining - 1,
                                         Append(servers, s.value))

\* `for _ in 0..server_count { servers.push(parse_server(url, &mut input)?) }`
RECURSIVE ServerLoop(_, _, _, _, _)
ServerLoop(url, input, pos, remaining, servers) ==
    IF remaining = 0 THEN POk(servers, pos)
    ELSE LET s == ParseServer(url, input, pos)
         IN  IF s.kind # "ok" THEN s
             ELSE ServerLoop(url, input, s.pos, remaining - 1, Append(servers, s.value))

\* A header check that lets every byte through.
HeaderIsAnyByte(header_byte) == header_byte \in 0..255

\* The header bytes parse_servers accepts: 0x0E and 0xE0.
HeaderIsValid(header_byte) == header_byte = 14 \/ header_byte = 224

ParseServers(url, input) ==
    LET header_byte == ReadU8(input, 0)
    IN  IF header_byte.kind # "ok" THEN header_byte
        ELSE IF ~HeaderIsValid(header_byte.value)
        THEN PErr("Header byte is not valid", header_byte.value)
        ELSE LET server_count == ReadU32Le(input, header_byte.pos)
             IN  IF server_count.kind # "ok" THEN server_count
                 ELSE IF server_count.value = 0 THEN POk(<< >>, server_count.pos)
                 ELSE ServerLoop(url, input, server_count.pos, server_count.value, << >>)

\* ---------------------------------------------------------------------
\* The server.met files the decoder is handed
\* ---------------------------------------------------------------------
\* A file is described by its header byte, the server count it declares,
\* its server records and the number of bytes of it that arrive (cut); a
\* record by its address, port, declared tag count and tags; a tag by the
\* form of its name, its type byte and its value.  The bytes are laid out
\* as parse_servers, parse_server and parse_tag read them.
MaxServers == 2
MaxTags == 2

U16Le(n) == << n % 256, n \div 256 >>
U32Le(n) == << n % 256, (n \div 256) % 256, (n \div 65536) % 256, n \div 16777216 >>
U32Be(n) == << n \div 16777216, (n \div 65536) % 256, (n \div 256) % 256, n % 256 >>

\* The value of a tag as a byte string (type 2) or as one number.
TagValue(type, value) == IF type = 2 THEN value ELSE << value >>

\* A tag whose type byte carries the high bit: the name is the next byte.
ShortTag(name, type, value) ==
    [ form |-> "short", name |-> << name >>, type |-> type, value |-> TagValue(type, value) ]
\* A tag whose name has length 1: a numeric name.
LongTag(name, type, value) ==
    [ form |-> "long", name |-> << name >>, type |-> type, value |-> TagValue(type, value) ]
\* A tag with a textual name (its length is not 1).
TextTag(name, type, value) ==
    [ form |-> "text", name |-> name, type |-> type, value |-> TagValue(type, value) ]

EncodeValue(t) ==
    CASE t.type = 2 -> U16Le(Len(t.value)) \o t.value
      [] t.type = 3 -> U32Le(t.value[1])
      [] OTHER      -> << >>

EncodeTag(t) ==
    (IF t.form = "short" THEN << 128 + t.type >> \o t.name
     ELSE << t.type >> \o U16Le(Len(t.name)) \o t.name)
    \o EncodeValue(t)

RECURSIVE EncodeTags(_)
EncodeTags(tags) ==
    IF tags = << >> THEN << >> ELSE EncodeTag(Head(tags)) \o EncodeTags(Tail(tags))

EncodeServer(r) ==
    U32Be(r.ip_addr) \o U16Le(r.port) \o U32Le(r.tag_count) \o EncodeTags(r.tags)

RECURSIVE EncodeServers(_)
EncodeServers(rs) ==
    IF rs = << >> THEN << >> ELSE EncodeServer(Head(rs)) \o EncodeServers(Tail(rs))

\* The whole file, and the bytes of it that arrive.
EncodeFile(f) == << f.header >> \o U32Le(f.count) \o EncodeServers(f.servers)
EncodeMet(f) == SubSeq(EncodeFile(f), 1, f.cut)

\* Strings used as tag names and values.
StrUsers == << 117, 115, 101, 114, 115 >>
StrLowUsers == << 108, 111, 119, 117, 115, 101, 114, 115 >>
StrFiles == << 102, 105, 108, 101, 115 >>
StrMaxUsers == << 109, 97, 120, 117, 115, 101, 114, 115 >>
StrCountry == << 99, 111, 117, 110, 116, 114, 121 >>

\* Recognised tags carrying a value of the kind their arm expects.
GoodTags ==
    { LongTag(1, 2, << 65 >>), ShortTag(1, 2, << 195, 169 >>),
      LongTag(11, 2, << 120, 121 >>), ShortTag(12, 3, 47), ShortTag(13, 3, 2),
      ShortTag(133, 2, << 97, 46, 98 >>), LongTag(135, 3, 500), ShortTag(136, 3, 1000),
      ShortTag(137, 3, 2000), ShortTag(144, 3, 7), ShortTag(145, 3, 17 * 65536 + 15),
      ShortTag(145, 2, << 49, 55, 46, 49, 53 >>), ShortTag(147, 2, << 52, 54, 44, 52, 55 >>),
      ShortTag(147, 2, << >>), ShortTag(147, 2, << 52, 54, 44, 44, 32, 44, 43, 55 >>),
      ShortTag(148, 3, 3), ShortTag(149, 3, 2147483647), ShortTag(150, 3, 16909060),
      ShortTag(151, 3, 65535), ShortTag(152, 3, 0),
      TextTag(StrUsers, 3, 10), TextTag(StrLowUsers, 3, 4), TextTag(StrFiles, 3, 99),
      TextTag(StrMaxUsers, 3, 501), TextTag(StrCountry, 2, << 109, 100 >>) }

\* The raw UDPFlags values: every single bit, no bit, every bit, the known
\* bits, and the value of the maximal fixture.  (u32 values are drawn
\* below 2^31, the integers TLC computes with.)
UdpFlagValues == { 2 ^ k : k \in 0..30 } \cup { 0, 1851, 2047, 6139, 2147483647 }
UdpFlagTags == { ShortTag(146, 3, v) : v \in UdpFlagValues }

\* The Preference values: the three of the wire and the first outside.
PreferenceTags == { LongTag(14, 3, v) : v \in 0..3 }

\* Tags with a name no arm matches, of type 2 or 3.
UnknownTags ==
    { ShortTag(85, 3, 9), LongTag(2, 2, << 122 >>), ShortTag(153, 2, << >>),
      TextTag(<< 102, 111, 111 >>, 2, << 98, 97, 114 >>),
      TextTag(<< 85, 115, 101, 114, 115 >>, 3, 12), TextTag(<< >>, 3, 1),
      TextTag(<< 195, 169 >>, 2, << 226, 130, 172 >>) }

\* Tags that do not decode: a type that is neither 2 nor 3, bytes that are
\* not UTF-8, values out of the range of their field.
BadTags ==
    { ShortTag(12, 5, 0), LongTag(1, 0, 0), TextTag(StrUsers, 4, 0),
      ShortTag(1, 2, << 255 >>), LongTag(11, 2, << 192, 128 >>),
      ShortTag(85, 2, << 237, 160, 128 >>), TextTag(<< 240, 40 >>, 3, 1),
      ShortTag(151, 3, 65536), ShortTag(152, 3, 2147483647),
      ShortTag(147, 2, << 55, 48, 48, 48, 48 >>), ShortTag(147, 2, << 52, 54, 44, 32, 52, 55 >>),
      ShortTag(147, 2, << 45, 49 >>) }

\* Recognised names carrying a value of the other kind.
MismatchedTags ==
    { ShortTag(1, 3, 1), LongTag(12, 2, << 52, 55 >>), ShortTag(147, 3, 4662),
      TextTag(StrCountry, 3, 1), TextTag(StrUsers, 2, << 49 >>) }

TagPool == GoodTags \cup UdpFlagTags \cup PreferenceTags \cup UnknownTags
           \cup BadTags \cup MismatchedTags

\* The tags that are put together into records of several tags.
SmallPool ==
    { LongTag(1, 2, << 65 >>), ShortTag(1, 2, << 195, 169 >>), LongTag(11, 2, << 120, 121 >>),
      LongTag(135, 3, 500), TextTag(StrMaxUsers, 3, 501), ShortTag(85, 3, 9),
      TextTag(<< 102, 111, 111 >>, 2, << 98, 97, 114 >>), ShortTag(12, 5, 0),
      LongTag(14, 3, 3), ShortTag(1, 3, 1),
      ShortTag(148, 3, 3), TextTag(StrLowUsers, 3, 4) }

TagLists == SeqsUpTo(SmallPool, MaxTags) \cup { << t >> : t \in TagPool }

\* A record with one name tag, at the address of its place in the file.
PlainServer(i) ==
    [ ip_addr |-> 16777216 + i, port |-> 4661, tag_count |-> 1,
      tags |-> << LongTag(1, 2, << 115 >>) >> ]

\* The record with the tags under test.
TestServer(tags, tag_count) ==
    [ ip_addr |-> 167772161, port |-> 4242, tag_count |-> tag_count, tags |-> tags ]

\* n records, the k-th of them r and the others plain.
ServersWith(n, k, r) == [ i \in 1..n |-> IF i = k THEN r ELSE PlainServer(i) ]

Whole(f) == [ f EXCEPT !.cut = Len(EncodeFile(f)) ]

\* Every prefix of a file, the file itself included.
Prefixes(f) == { [ f EXCEPT !.cut = c ] : c \in 0..Len(EncodeFile(f)) }

MetFile0(h, count, servers) ==
    [ header |-> h, count |-> count, servers |-> servers, cut |-> 0 ]

\* Files that declare what they hold, whole: the record under test at
\* every place among plain records.
TagFiles ==
    UNION { { Whole(MetFile0(14, n, ServersWith(n, k, TestServer(tags, Len(tags))))) :
                k \in 1..n, tags \in TagLists } : n \in 1..MaxServers }

\* Files whose declared server count or tag count is not what they hold.
CountFiles ==
    { Whole(MetFile0(h, c, ServersWith(n, 1, TestServer(tags, tc)))) :
        h \in { 14, 224 }, n \in 0..MaxServers, c \in 0..(MaxServers + 1),
        tags \in { << >>, << LongTag(11, 2, << 120, 121 >>) >> }, tc \in 0..2 }

\* Files behind every kind of first byte, whole or broken off early.
HeaderBytes == { 0, 13, 14, 15, 224, 225, 255 }
HeaderFiles ==
    { Whole(MetFile0(h, 1, << TestServer(<< t >>, 1) >>)) : h \in HeaderBytes, t \in TagPool }
    \cup UNION { Prefixes(MetFile0(h, 1, << PlainServer(1) >>)) : h \in HeaderBytes }

\* The files of one tested tag, and every prefix of them.
CutFiles ==
    UNION { Prefixes(MetFile0(224, n, ServersWith(n, n, TestServer(<< t >>, 1)))) :
              n \in 1..MaxServers, t \in TagPool }

MetFiles == TagFiles \cup CountFiles \cup HeaderFiles \cup CutFiles

\* ---------------------------------------------------------------------
\* The Configuration Manager (configuration_manager.rs): start and run
\* ---------------------------------------------------------------------
MaxAddresses == 2   \* longest address list a run starts from
MaxCommands == 2    \* most commands sent to the manager

Commands == { "Start", "Stop", "UpdateServerList" }

Address(url, active) == [ url |-> url, active |-> active ]

\* The address lists AddressList::load_all hands to the manager: the URLs
\* are distinct, each address is active or not.
AddressLists ==
    UNION { { [ i \in 1..n |-> Address(UrlNames[i], act[i]) ] : act \in [ 1..n -> BOOLEAN ] } :
              n \in 0..MaxAddresses }

\* The addresses an empty address list is filled with: all of them active.
DefaultAddresses == << Address(UrlNames[1], TRUE), Address(UrlNames[2], TRUE) >>

\* What the network holds in store for a fetch unit of a Start.
StartResponses ==
    { r \in Responses : r.kind = "transport_error" \/ (r.kind = "met" /\ r.file < 3) }

\* What the database holds in store for the save_all of a Start on a list
\* of n servers: the transaction cannot be begun (-1), nothing fails (0),
\* the statement of a server fails, or the commit does.
StartSaveFailures(n) == -1..(n + MaxIp + 1)

\* A filter that lets every address through.
ActiveAddressesIgnoresActive(addrs) == [ i \in 1..Len(addrs) |-> addrs[i].url ]

\* start: the URLs of the addresses with addr.active, in list order.
ActiveAddresses(addrs) ==
    LET sel == SelectSeq(addrs, LAMBDA a : a.active)
    IN  [ i \in 1..Len(sel) |-> sel[i].url ]

\* download_servers as a whole: the client, one task per URL, the join in
\* task order, then flatten, sort and dedup.
DownloadServers(us, resp, client_ok) ==
    IF ~client_ok THEN Err("client")
    ELSE LET outs == [ i \in 1..Len(us) |-> UnitOutput(resp[i], us[i]) ]
         IN  Ok(DedupByIp(SortByIp(FlattenOk(JoinAll(outs, [ i \in 1..Len(us) |-> i ])))))

\* auto_update_server_list once save_all has returned sv for the merge m
\* of the downloaded servers: Ok(()) or the error of save_all.
AutoUpdateSaved(m, sv, downloaded) ==
    [ servers |-> sv.servers, rows |-> sv.rows, downloaded |-> downloaded,
      merged |-> TRUE,
      num_inserted |-> m.num_inserted, num_updated |-> m.num_updated,
      result |-> IF sv.ok THEN "ok" ELSE IF sv.panicked THEN "panic" ELSE "err",
      error |-> IF sv.ok \/ sv.panicked THEN "none" ELSE "save_all" ]

\* auto_update_server_list behind the merge: self.servers.save_all(&conn)?
\* The save reads the clock after the merge has read it.
AutoUpdateMerged(m, rows, downloaded, fail_at, now) ==
    AutoUpdateSaved(m, SaveAll(m.servers, rows, fail_at, IF now < MaxClock THEN now + 1 ELSE now),
                    downloaded)

\* auto_update_server_list behind the download d: its error is handed up,
\* its servers are merged.
AutoUpdateDownloaded(d, list, rows, fail_at, now) ==
    IF ~d.ok
    THEN [ servers |-> list, rows |-> rows, downloaded |-> << >>, merged |-> FALSE,
           num_inserted |-> 0, num_updated |-> 0, result |-> "err", error |-> "client" ]
    ELSE AutoUpdateMerged(MergeParsedServers(list, d.value, now), rows, d.value, fail_at, now)

\* auto_update_server_list: download_servers(addresses)?, merge, save_all?.
AutoUpdateServerList(list, rows, us, resp, client_ok, fail_at, now) ==
    AutoUpdateDownloaded(DownloadServers(us, resp, client_ok), list, rows, fail_at, now)

Event(name, payload) == [ name |-> name, payload |-> payload ]

\* A start that tells of the end of the load before the data.
StartEventsInitCompleteFirst(set, addrs, list) ==
    << Event("InitComplete", << >>),
       Event("SettingsChange", << set >>),
       Event("AddressListChange", << addrs >>),
       Event("TempDirectoryListChange", << >>),
       Event("ServerListChange", << list >>) >>

\* start: the events it sends, each with a clone of the data it tells of
\* (the temp directories are not modelled).
StartEvents(set, addrs, list) ==
    << Event("SettingsChange", << set >>),
       Event("AddressListChange", << addrs >>),
       Event("TempDirectoryListChange", << >>),
       Event("ServerListChange", << list >>),
       Event("InitComplete", << >>) >>

\* ConfigurationManager::start behind the update of the server list, which
\* came to upd: what start has done before it sends the events.
StartUpdated(set, addrs1, defaults_failed, active, refresh, upd) ==
    [ settings  |-> set,
      addresses |-> addrs1,
      servers   |-> upd.servers,
      rows      |-> upd.rows,
      urls      |-> IF refresh THEN active ELSE << >>,
      downloaded |-> upd.downloaded,
      merged    |-> upd.merged,
      num_inserted |-> upd.num_inserted,
      num_updated  |-> upd.num_updated,
      refreshed |-> refresh,
      events    |-> << >>,
      error     |-> IF defaults_failed THEN "insert_default_addresses" ELSE upd.error,
      result    |-> IF defaults_failed THEN "err" ELSE upd.result ]

\* ConfigurationManager::start, up to the events.  The inputs: defaults_ok
\* (the insert of the default addresses succeeds), client_ok, resp and
\* fail_at (download and save, as above).
StartRefresh(set, addrs, list, rows, now, in) ==
    LET defaults_failed == addrs = << >> /\ ~in.defaults_ok
        addrs1  == IF addrs = << >> /\ in.defaults_ok THEN DefaultAddresses ELSE addrs
        active  == ActiveAddresses(addrs1)
        refresh == ~defaults_failed /\ set.auto_update_server_list /\ active # << >>
    IN  StartUpdated(set, addrs1, defaults_failed, active, refresh,
            IF refresh
            THEN AutoUpdateServerList(list, rows, active, in.resp, in.client_ok,
                                      in.fail_at, now)
            ELSE [ servers |-> list, rows |-> rows, downloaded |-> << >>,
                   merged |-> FALSE, num_inserted |-> 0, num_updated |-> 0,
                   result |-> "ok", error |-> "none" ])

\* ConfigurationManager::start, the rest of it: the events are sent one
\* after the other, each send with its ?; sends is
\* the number of events sent before a send fails for want of a receiver
\* (all of them: none fails).
StartSend(r, sends) ==
    LET evs == StartEvents(r.settings, r.addresses, r.servers)
    IN  IF r.result # "ok" THEN r
        ELSE [ r EXCEPT !.events = SubSeq(evs, 1, sends),
                        !.error  = IF sends < Len(evs) THEN "send" ELSE "none",
                        !.result = IF sends < Len(evs) THEN "err" ELSE "ok" ]

\* A loop that goes on after a Stop.
RunStepIgnoresShutdown(result) ==
    IF result \in { "err", "panic" } THEN "panicked" ELSE "running"

\* run: handle_message(cmd).unwrap() panics on an Err (a panic inside the
\* handler ends the thread as well); if shutdown { break }.
RunStep(result) ==
    IF result \in { "err", "panic" } THEN "panicked"
    ELSE IF result = "shutdown" THEN "stopped"
    ELSE "running"

\* ---------------------------------------------------------------------
\* State
\* ---------------------------------------------------------------------
VARIABLES
    servers,        \* ServerList.servers, in Vec order
    clock,          \* the value times::now() returns
    num_inserted,   \* the counters of the last merge_parsed_servers call
    num_updated,
    last_batch,     \* the batch handed to the last merge_parsed_servers call
    last_op,        \* the operation that ran last
    repeated,       \* the last merge was handed the batch of the merge before it
    pc,             \* where auto_update_server_list stands
    urls,           \* the URLs handed to download_servers
    response,       \* per task, what its fetch and decode will come to
    tasks,          \* per task, "running" or "resolved"
    outputs,        \* per task, the output of its JoinHandle once resolved
    completion,     \* the tasks in the order they resolved
    all_download_results,   \* what block_on(join_all(tasks)) returned
    all_parsed_servers,     \* the list download_servers returns
    table,          \* the committed rows of the server table
    met,            \* the server.met file a response carries
    input,          \* the bytes of it handed to parse_servers
    parsed,         \* what parse_servers came to
    error,          \* the error auto_update_server_list returned, if any
    settings,       \* ConfigurationManager.settings
    addresses,      \* ConfigurationManager.addresses
    commands,       \* the commands in the channel, not yet received
    sent,           \* every command sent so far, in the order of sending
    handled,        \* the commands handle_message was called with, and what came of each
    events,         \* the events sent to the broadcast channel, in order
    mgr             \* the loop of run: "running", "stopped", "closed" or "panicked"

mergeVars == << servers, clock, num_inserted, num_updated, last_batch, last_op, repeated >>
fetchVars == << urls, response, tasks, outputs, completion, all_download_results, all_parsed_servers >>
parseVars == << met, input, parsed >>
mgrVars == << settings, addresses, commands, sent, handled, events, mgr >>
vars == << servers, clock, num_inserted, num_updated, last_batch, last_op, repeated,
           pc, urls, response, tasks, outputs, completion, all_download_results,
           all_parsed_servers, table, error, met, input, parsed,
           settings, addresses, commands, sent, handled, events, mgr >>

\* The manager as the runs of the download, the merge and the decoder
\* have it: set to update the server list, no command sent yet.
MgrIdle ==
    /\ settings = [ auto_update_server_list |-> TRUE ]
    /\ addresses = << >>
    /\ commands = << >>
    /\ sent = << >>
    /\ handled = << >>
    /\ events = << >>
    /\ mgr = "running"

\* No file has arrived and nothing has been decoded.
NoMet == [ header |-> 0, count |-> 0, servers |-> << >>, cut |-> 0 ]
NotParsed == [ kind |-> "none", value |-> << >>, pos |-> 0 ]

\* ConfigurationManager::new: the server list is loaded from the table, and
\* nothing has been downloaded.
Init ==
    /\ servers \in InitialCollections
    /\ table = { servers[i] : i \in 1..Len(servers) }
    /\ clock = 1
    /\ num_inserted = 0
    /\ num_updated = 0
    /\ last_batch = << >>
    /\ last_op = "new"
    /\ repeated = FALSE
    /\ pc = "idle"
    /\ urls = << >>
    /\ response = << >>
    /\ tasks = << >>
    /\ outputs = << >>
    /\ completion = << >>
    /\ all_download_results = << >>
    /\ all_parsed_servers = << >>
    /\ error = "none"
    /\ met = NoMet
    /\ input = << >>
    /\ parsed = NotParsed
    /\ MgrIdle

\* times::now() returns the clock; the clock moves on between two calls
\* until it reaches MaxClock.
Now == clock

Later(t) == IF t < MaxClock THEN t + 1 ELSE t

\* ---------------------------------------------------------------------
\* The merge engine driven directly
\* ---------------------------------------------------------------------
\* A call of ServerList::merge_parsed_servers with an arbitrary batch.
MergeBatch ==
    /\ last_op = "new"
    /\ \E batch \in Batches :
        LET r == MergeParsedServers(servers, batch, Now)
        IN  /\ servers' = r.servers
            /\ num_inserted' = r.num_inserted
            /\ num_updated' = r.num_updated
            /\ last_batch' = batch
    /\ last_op' = "merge"
    /\ repeated' = FALSE
    /\ clock' = Later(clock)
    /\ UNCHANGED parseVars
    /\ UNCHANGED mgrVars
    /\ UNCHANGED << pc, fetchVars, table, error >>

\* A second call of merge_parsed_servers with the batch of the call before.
MergeAgain ==
    /\ last_op = "merge"
    /\ ~repeated
    /\ LET r == MergeParsedServers(servers, last_batch, Now)
       IN  /\ servers' = r.servers
           /\ num_inserted' = r.num_inserted
           /\ num_updated' = r.num_updated
    /\ repeated' = TRUE
    /\ clock' = Later(clock)
    /\ UNCHANGED parseVars
    /\ UNCHANGED mgrVars
    /\ UNCHANGED << last_batch, last_op, pc, fetchVars, table, error >>

\* The caller drops the batch and the counters; the list stays.
DropBatch ==
    /\ last_op = "merge"
    /\ last_batch' = << >>
    /\ num_inserted' = 0
    /\ num_updated' = 0
    /\ repeated' = FALSE
    /\ last_op' = "new"
    /\ UNCHANGED parseVars
    /\ UNCHANGED mgrVars
    /\ UNCHANGED << servers, clock, pc, fetchVars, table, error >>

MergeNext == MergeBatch \/ MergeAgain \/ DropBatch

SpecMerge == Init /\ [][MergeNext]_vars

\* ---------------------------------------------------------------------
\* auto_update_server_list: download, merge, save
\* ---------------------------------------------------------------------
\* download_servers: the reqwest client cannot be built; the error is
\* returned before any task is spawned.
ClientBuildFails ==
    /\ pc = "idle"
    /\ pc' = "failed"
    /\ error' = "client"
    /\ UNCHANGED parseVars
    /\ UNCHANGED mgrVars
    /\ UNCHANGED << mergeVars, fetchVars, table >>

\* download_servers: one task is spawned per URL, then block_on(join_all).
SpawnTasks ==
    /\ pc = "idle"
    /\ \E n \in 1..MaxUrls :
        \E resp \in [ 1..n -> Responses ] :
            /\ urls' = UrlList(n)
            /\ response' = resp
            /\ tasks' = [ i \in 1..n |-> "running" ]
            /\ outputs' = [ i \in 1..n |-> Err("pending") ]
    /\ completion' = << >>
    /\ pc' = "fetching"
    /\ UNCHANGED parseVars
    /\ UNCHANGED mgrVars
    /\ UNCHANGED << mergeVars, all_download_results, all_parsed_servers, table, error >>

\* One spawned task runs to its end.
TaskResolves(i) ==
    /\ i \in 1..Len(tasks)
    /\ tasks[i] = "running"
    /\ tasks' = [ tasks EXCEPT ![i] = "resolved" ]
    /\ outputs' = [ outputs EXCEPT ![i] = UnitOutput(response[i], urls[i]) ]
    /\ completion' = Append(completion, i)
    /\ UNCHANGED parseVars
    /\ UNCHANGED mgrVars
    /\ UNCHANGED << mergeVars, pc, urls, response, all_download_results,
                    all_parsed_servers, table, error >>

\* block_on(join_all(tasks)) returns.
Joined ==
    /\ pc = "fetching"
    /\ AllResolved(tasks)
    /\ all_download_results' = JoinAll(outputs, completion)
    /\ pc' = "aggregating"
    /\ UNCHANGED parseVars
    /\ UNCHANGED mgrVars
    /\ UNCHANGED << mergeVars, urls, response, tasks, outputs, completion,
                    all_parsed_servers, table, error >>

\* The rest of download_servers: flatten, sort, dedup, return Ok.
Aggregate ==
    /\ pc = "aggregating"
    /\ all_parsed_servers' = DedupByIp(SortByIp(FlattenOk(all_download_results)))
    /\ pc' = "merging"
    /\ UNCHANGED parseVars
    /\ UNCHANGED mgrVars
    /\ UNCHANGED << mergeVars, urls, response, tasks, outputs, completion,
                    all_download_results, table, error >>

\* self.servers.merge_parsed_servers(&download_servers); the call of
\* download_servers is over, and with it the record of its completions.
MergeDownloaded ==
    /\ pc = "merging"
    /\ LET r == MergeParsedServers(servers, all_parsed_servers, Now)
       IN  /\ servers' = r.servers
           /\ num_inserted' = r.num_inserted
           /\ num_updated' = r.num_updated
    /\ clock' = Later(clock)
    /\ last_batch' = all_parsed_servers
    /\ last_op' = "merge"
    /\ repeated' = FALSE
    /\ pc' = "saving"
    /\ completion' = << >>
    /\ UNCHANGED parseVars
    /\ UNCHANGED mgrVars
    /\ UNCHANGED << urls, response, tasks, outputs, all_download_results,
                    all_parsed_servers, table, error >>

\* self.servers.save_all(&conn)?
SaveServers ==
    /\ pc = "saving"
    /\ \E fail_at \in -1..(Len(servers) + 1) :
        LET r == SaveAll(servers, table, fail_at, Now)
        IN  /\ servers' = r.servers
            /\ table' = r.rows
            /\ pc' = IF r.ok THEN "done" ELSE IF r.panicked THEN "panicked" ELSE "failed"
            /\ error' = IF r.ok \/ r.panicked THEN "none" ELSE "save_all"
    /\ clock' = Later(clock)
    /\ last_op' = "save"
    /\ UNCHANGED parseVars
    /\ UNCHANGED mgrVars
    /\ UNCHANGED << num_inserted, num_updated, last_batch, repeated, fetchVars >>

\* run: handle_message(cmd).unwrap() panics on the error start hands up
\* from auto_update_server_list.
RunUnwrapsError ==
    /\ pc = "failed"
    /\ pc' = "panicked"
    /\ UNCHANGED parseVars
    /\ UNCHANGED mgrVars
    /\ UNCHANGED << mergeVars, fetchVars, table, error >>

\* The next run of the program: ConfigurationManager::new loads the server
\* list from the table the run before has saved; a load that fails ends in
\* the expect of ConfigurationManagerHandle::new.
LoadServers ==
    /\ pc = "done"
    /\ LET r == LoadAll(table)
       IN  /\ servers' = IF r.kind = "ok" THEN r.value ELSE << >>
           /\ pc' = IF r.kind = "ok" THEN "loaded" ELSE "panicked"
    /\ last_op' = "load"
    /\ UNCHANGED parseVars
    /\ UNCHANGED mgrVars
    /\ UNCHANGED << clock, num_inserted, num_updated, last_batch, repeated,
                    fetchVars, table, error >>

Next ==
    \/ ClientBuildFails
    \/ SpawnTasks
    \/ \E i \in 1..MaxUrls : TaskResolves(i)
    \/ Joined
    \/ Aggregate
    \/ MergeDownloaded
    \/ SaveServers
    \/ RunUnwrapsError
    \/ LoadServers

Spec == Init /\ [][Next]_vars

\* ---------------------------------------------------------------------
\* download_servers on its own, with the progress its scheduling gives
\* ---------------------------------------------------------------------
\* One call of download_servers on an empty server list.
InitDownload == Init /\ servers = << >>

DownloadNext ==
    \/ ClientBuildFails
    \/ SpawnTasks
    \/ \E i \in 1..MaxUrls : TaskResolves(i)
    \/ Joined
    \/ Aggregate

\* Every spawned task resolves: the client is built with a timeout of 30
\* seconds, so a request ends with a response, a transport error or the
\* timeout, and the tokio runtime runs every spawned task.  The thread of
\* the manager is not stopped: once join_all is ready, block_on returns.
\* So as long as a task can resolve or the join can return, one of the
\* two happens.
DownloadProgress ==
    \/ \E i \in 1..MaxUrls : TaskResolves(i)
    \/ Joined

SpecDownload ==
    /\ InitDownload
    /\ [][DownloadNext]_vars
    /\ WF_vars(DownloadProgress)

\* ---------------------------------------------------------------------
\* download_server_met: the body of a response is handed to parse_servers
\* ---------------------------------------------------------------------
\* A response has arrived with one of the files; nothing else has run.
InitParse ==
    /\ met \in MetFiles
    /\ input = EncodeMet(met)
    /\ parsed = NotParsed
    /\ servers = << >>
    /\ table = {}
    /\ clock = 1
    /\ num_inserted = 0
    /\ num_updated = 0
    /\ last_batch = << >>
    /\ last_op = "new"
    /\ repeated = FALSE
    /\ pc = "fetching"
    /\ urls = << "u1" >>
    /\ response = << >>
    /\ tasks = << >>
    /\ outputs = << >>
    /\ completion = << >>
    /\ all_download_results = << >>
    /\ all_parsed_servers = << >>
    /\ error = "none"
    /\ MgrIdle

\* parse_servers(url, &bytes)
ParseServerMet ==
    /\ parsed = NotParsed
    /\ parsed' = ParseServers(urls[1], input)
    /\ UNCHANGED << mergeVars, pc, fetchVars, table, error, met, input >>
    /\ UNCHANGED mgrVars

SpecParse == InitParse /\ [][ParseServerMet]_vars

\* ---------------------------------------------------------------------
\* The Configuration Manager: commands in, events out
\* ---------------------------------------------------------------------
\* ConfigurationManagerHandle::new: the manager is constructed with what
\* the tables hold and its thread waits for the first command.
InitManager ==
    /\ servers \in InitialCollections
    /\ table = { servers[i] : i \in 1..Len(servers) }
    /\ settings \in [ auto_update_server_list : BOOLEAN ]
    /\ addresses \in AddressLists
    /\ commands = << >>
    /\ sent = << >>
    /\ handled = << >>
    /\ events = << >>
    /\ mgr = "running"
    /\ clock = 1
    /\ num_inserted = 0
    /\ num_updated = 0
    /\ last_batch = << >>
    /\ last_op = "new"
    /\ repeated = FALSE
    /\ pc = "idle"
    /\ urls = << >>
    /\ response = << >>
    /\ tasks = << >>
    /\ outputs = << >>
    /\ completion = << >>
    /\ all_download_results = << >>
    /\ all_parsed_servers = << >>
    /\ error = "none"
    /\ met = NoMet
    /\ input = << >>
    /\ parsed = NotParsed

\* send_command / send_command_blocking: a holder of a sender puts a
\* command into the channel while the receiver is alive.
SendCommand(cmd) ==
    /\ mgr = "running"
    /\ Len(sent) < MaxCommands
    /\ commands' = Append(commands, cmd)
    /\ sent' = Append(sent, cmd)
    /\ UNCHANGED parseVars
    /\ UNCHANGED << mergeVars, pc, fetchVars, table, error,
                    settings, addresses, handled, events, mgr >>

\* What a Start whose start came to r leaves behind, run's unwrap included.
StartStep(r) ==
    /\ addresses' = r.addresses
    /\ servers' = r.servers
    /\ table' = r.rows
    /\ urls' = r.urls
    /\ all_parsed_servers' = r.downloaded
    /\ events' = events \o r.events
    /\ error' = r.error
    /\ pc' = IF ~r.refreshed THEN "idle"
             ELSE IF r.result = "panic" THEN "panicked"
             ELSE IF r.error \in { "none", "send" } THEN "done"
             ELSE "failed"
    /\ num_inserted' = IF r.merged THEN r.num_inserted ELSE num_inserted
    /\ num_updated' = IF r.merged THEN r.num_updated ELSE num_updated
    /\ last_batch' = IF r.merged THEN r.downloaded ELSE last_batch
    /\ last_op' = IF r.merged THEN "save" ELSE last_op
    /\ clock' = IF r.merged THEN Later(Later(clock)) ELSE clock
    /\ handled' = Append(handled, [ cmd |-> "Start", result |-> r.result ])
    /\ mgr' = RunStep(r.result)

\* start has come to u before the events; the events are sent.
StartSends(u) ==
    \E sends \in (IF u.result = "ok" THEN 0..5 ELSE { 5 }) : StartStep(StartSend(u, sends))

\* run receives Start: handle_message calls start, run unwraps the result.
HandleStart ==
    /\ mgr = "running"
    /\ commands # << >>
    /\ Head(commands) = "Start"
    /\ \E defaults_ok \in (IF addresses = << >> THEN BOOLEAN ELSE { TRUE }) :
        LET n == IF settings.auto_update_server_list /\ (addresses # << >> \/ defaults_ok)
                 THEN Len(ActiveAddresses(IF addresses = << >> THEN DefaultAddresses
                                          ELSE addresses))
                 ELSE 0
        IN  \E client_ok \in (IF n > 0 THEN BOOLEAN ELSE { TRUE }) :
            \E resp \in [ 1..(IF client_ok THEN n ELSE 0) -> StartResponses ] :
            \E fail_at \in (IF n > 0 /\ client_ok THEN StartSaveFailures(Len(servers)) ELSE { 0 }) :
                StartSends(StartRefresh(settings, addresses, servers, table, Now,
                                        [ defaults_ok |-> defaults_ok, client_ok |-> client_ok,
                                          resp |-> resp, fail_at |-> fail_at ]))
    /\ commands' = Tail(commands)
    /\ UNCHANGED parseVars
    /\ UNCHANGED << repeated, response, tasks, outputs, completion,
                    all_download_results, settings, sent >>

\* run receives Stop: stop() does nothing, shutdown is true and run breaks.
HandleStop ==
    /\ mgr = "running"
    /\ commands # << >>
    /\ Head(commands) = "Stop"
    /\ commands' = Tail(commands)
    /\ handled' = Append(handled, [ cmd |-> "Stop", result |-> "shutdown" ])
    /\ mgr' = RunStep("shutdown")
    /\ UNCHANGED parseVars
    /\ UNCHANGED << mergeVars, pc, fetchVars, table, error,
                    settings, addresses, sent, events >>

\* run receives UpdateServerList: the arm of handle_message is todo!().
HandleUpdateServerList ==
    /\ mgr = "running"
    /\ commands # << >>
    /\ Head(commands) = "UpdateServerList"
    /\ commands' = Tail(commands)
    /\ handled' = Append(handled, [ cmd |-> "UpdateServerList", result |-> "panic" ])
    /\ mgr' = RunStep("panic")
    /\ UNCHANGED parseVars
    /\ UNCHANGED << mergeVars, pc, fetchVars, table, error,
                    settings, addresses, sent, events >>

\* Every sender is dropped while the channel is empty: blocking_recv
\* returns None and the loop of run ends.
SendersDropped ==
    /\ mgr = "running"
    /\ commands = << >>
    /\ mgr' = "closed"
    /\ UNCHANGED parseVars
    /\ UNCHANGED << mergeVars, pc, fetchVars, table, error,
                    settings, addresses, commands, sent, handled, events >>

ManagerNext ==
    \/ \E cmd \in Commands : SendCommand(cmd)
    \/ HandleStart
    \/ HandleStop
    \/ HandleUpdateServerList
    \/ SendersDropped

SpecManager == InitManager /\ [][ManagerNext]_vars

\* ---------------------------------------------------------------------
\* Properties of the merge engine
\* ---------------------------------------------------------------------
\* A step of the behaviour that is a call of merge_parsed_servers.
IsMergeStep == last_op' = "merge" /\ (last_op = "new" \/ repeated')

DistinctIps(batch) ==
    \A i, j \in 1..Len(batch) : i # j => batch[i].ip_addr # batch[j].ip_addr

\* The optional fields of a stored server are those of a candidate.
OptionalFieldsFrom(s, ps) ==
    /\ s.name = ps.name
    /\ s.description = ps.description
    /\ s.user_count = ps.user_count
    /\ s.low_id_user_count = ps.low_id_user_count
    /\ s.max_user_count = ps.max_user_count
    /\ s.ping_ms = ps.ping
    /\ s.file_count = ps.file_count
    /\ s.soft_file_limit = ps.soft_file_limit
    /\ s.hard_file_limit = ps.hard_file_limit
    /\ s.udp_flags = ps.udp_flags
    /\ s.version = ps.version
    /\ s.last_ping_time = ps.last_ping_time
    /\ s.udp_key = ps.udp_key
    /\ s.udp_key_ip_addr = ps.udp_key_ip_addr
    /\ s.tcp_obfuscation_port = ps.tcp_obfuscation_port
    /\ s.udp_obfuscation_port = ps.udp_obfuscation_port
    /\ s.dns_name = ps.dns
    /\ s.priority = ps.priority
    /\ s.aux_ports_list = UnwrapOrDefault(ps.aux_ports_list)
    /\ s.fail_count = ps.fail_count

\* C1: after any sequence of merges, with any batches, no two servers of the
\* collection share an IP: the collection holds exactly one Server per IP.
C1_OneServerPerIp ==
    \A i, j \in 1..Len(servers) : i # j => servers[i].ip_addr # servers[j].ip_addr

\* A batch whose two candidates carry the same, new, IP has been merged: the
\* first was inserted and the second updated it.
C1_Witness ==
    /\ last_op = "merge"
    /\ Len(last_batch) = 2
    /\ last_batch[1].ip_addr = last_batch[2].ip_addr
    /\ num_inserted = 1
    /\ num_updated = 1

\* C2: a merge handed the batch of the merge just before it changes nothing
\* in the collection (servers, order, field values) and inserts no server.
C2_MergeTwiceIsMergeOnce ==
    [][ (last_op = "merge" /\ repeated' /\ last_batch' = last_batch)
            => (servers' = servers /\ num_inserted' = 0) ]_vars

\* The same batch, with a repeated IP and values, was merged twice in a row.
C2_Witness ==
    /\ repeated
    /\ Len(last_batch) = 2
    /\ last_batch[1].ip_addr = last_batch[2].ip_addr
    /\ last_batch[1] # last_batch[2]
    /\ last_batch[2].aux_ports_list # None

\* C3: when a candidate's IP matches an existing Server, after the merge
\* every optional field of the stored Server, last_ping_time included, is the
\* candidate's, and a field absent in the candidate is absent on the record.
C3_FullOverwriteOnMatch ==
    [][ IsMergeStep =>
            \A i \in 1..Len(last_batch') :
                LET ps == last_batch'[i]
                IN  (/\ Position(servers, ps.ip_addr) # 0
                     /\ \A j \in (i + 1)..Len(last_batch') : last_batch'[j].ip_addr # ps.ip_addr)
                    => OptionalFieldsFrom(servers'[Position(servers', ps.ip_addr)], ps) ]_vars

\* C4: for a batch of pairwise distinct IPs, updated counts the candidates
\* whose IP was in the collection, inserted the others; the two add up to the
\* batch length and the collection grows by the inserted count.
C4_CountsOfDistinctBatch ==
    [][ (IsMergeStep /\ DistinctIps(last_batch')) =>
            LET known == { i \in 1..Len(last_batch') : Position(servers, last_batch'[i].ip_addr) # 0 }
            IN  /\ num_updated' = Cardinality(known)
                /\ num_inserted' = Len(last_batch') - Cardinality(known)
                /\ num_inserted' + num_updated' = Len(last_batch')
                /\ Len(servers') = Len(servers) + num_inserted' ]_vars

\* An existing IP and a new IP were merged in one batch: 1 update, 1 insert.
C4_Witness ==
    /\ last_op = "merge"
    /\ Len(last_batch) = 2
    /\ DistinctIps(last_batch)
    /\ num_updated = 1
    /\ num_inserted = 1
    /\ \E i \in 1..Len(servers) : servers[i].id # 0

\* C5: a candidate whose IP matches no existing Server is appended as a new
\* Server with id 0, active, the candidate's source, IP and port, and the
\* candidate's optional fields (last_ping_time included).
C5_InsertBuildsServerFromCandidate ==
    [][ (IsMergeStep /\ DistinctIps(last_batch')) =>
            \A i \in 1..Len(last_batch') :
                LET ps == last_batch'[i]
                    k  == Position(servers', ps.ip_addr)
                IN  Position(servers, ps.ip_addr) = 0 =>
                        /\ k > Len(servers)
                        /\ servers'[k].id = 0
                        /\ servers'[k].active = TRUE
                        /\ servers'[k].source = ps.source
                        /\ servers'[k].ip_addr = ps.ip_addr
                        /\ servers'[k].port = ps.port
                        /\ OptionalFieldsFrom(servers'[k], ps) ]_vars

\* ---------------------------------------------------------------------
\* Properties of the fetch orchestrator
\* ---------------------------------------------------------------------
\* download_servers has returned Ok(all_parsed_servers).
Returned == pc \in { "merging", "saving", "done" } \/ (pc = "failed" /\ error = "save_all")

\* The unit of URL i fails: transport error or timeout, empty body, decode
\* error, or the task aborts.
Fails(i) == response[i].kind # "met"

\* The list URL i resolves to when its unit does not fail.
ListOf(i) == IF Fails(i) THEN << >> ELSE MetFile(response[i].file, urls[i])

\* The per-URL lists one after the other, in URL input order.
RECURSIVE ConcatFrom(_)
ConcatFrom(i) == IF i > Len(urls) THEN << >> ELSE ListOf(i) \o ConcatFrom(i + 1)

IpsOf(list) == { list[k].ip_addr : k \in 1..Len(list) }

\* C6: whatever units fail, download_servers returns a list once its units
\* were spawned; a failing URL contributes no entry to it and every IP
\* decoded from a non-failing URL is in it.
C6_FailingSourcesAreIsolated ==
    /\ error = "client" => urls = << >>
    /\ Returned =>
        \A i \in 1..Len(urls) :
            /\ Fails(i) => \A k \in 1..Len(all_parsed_servers) :
                                all_parsed_servers[k].source # urls[i]
            /\ ~Fails(i) => IpsOf(ListOf(i)) \subseteq IpsOf(all_parsed_servers)

\* One source of three failed to decode, the two others delivered records.
C6_Witness ==
    /\ pc = "merging"
    /\ Len(urls) = 3
    /\ response[2].kind = "decode_error"
    /\ ~Fails(1) /\ ~Fails(3)
    /\ response[1].file = 1 /\ response[3].file = 2
    /\ IpsOf(all_parsed_servers) = { 1, MaxIp }

\* C7: the list download_servers returns is the one the URL list and the
\* per-URL results determine, whatever the order the units completed in.
C7_ResultIndependentOfCompletionOrder ==
    Returned => all_parsed_servers = DedupByIp(SortByIp(ConcatFrom(1)))

\* The second unit completed before the first, and both delivered IP 1 with
\* different fields.
C7_Witness ==
    /\ pc = "merging"
    /\ Len(urls) >= 2
    /\ completion[1] = 2
    /\ response[1] = [ kind |-> "met", file |-> 2 ]
    /\ response[2] = [ kind |-> "met", file |-> 1 ]
    /\ Len(all_parsed_servers) = 2

\* C8: of the fetched entries with one IP, the list keeps the first one in
\* the concatenation of the per-URL lists in URL order, and only that one.
C8_FirstOccurrenceWins ==
    Returned =>
        LET cat == ConcatFrom(1)
        IN  \A k \in 1..Len(all_parsed_servers) :
                /\ \E j \in 1..Len(cat) :
                        /\ cat[j] = all_parsed_servers[k]
                        /\ \A h \in 1..(j - 1) : cat[h].ip_addr # cat[j].ip_addr
                /\ \A m \in 1..Len(all_parsed_servers) :
                        m # k => all_parsed_servers[m].ip_addr # all_parsed_servers[k].ip_addr

\* IP 1 came twice in the first file and once more from the second source;
\* the entry kept is the first of the first file.
C8_Witness ==
    /\ pc = "merging"
    /\ Len(urls) >= 2
    /\ response[1] = [ kind |-> "met", file |-> 3 ]
    /\ response[2] = [ kind |-> "met", file |-> 2 ]
    /\ all_parsed_servers[1] = ParsedServer(1, urls[1], "min")

\* C9: the returned list is strictly ascending by IP and its IPs are those
\* of the per-URL lists that resolved successfully.
C9_AscendingAndComplete ==
    Returned =>
        /\ \A k \in 1..(Len(all_parsed_servers) - 1) :
                all_parsed_servers[k].ip_addr < all_parsed_servers[k + 1].ip_addr
        /\ IpsOf(all_parsed_servers) = UNION { IpsOf(ListOf(i)) : i \in 1..Len(urls) }

\* A file listing its servers in descending IP order was returned sorted.
C9_Witness ==
    /\ pc = "merging"
    /\ response[1] = [ kind |-> "met", file |-> 1 ]
    /\ Len(all_parsed_servers) = 2
    /\ all_parsed_servers[1].ip_addr = 1
    /\ all_parsed_servers[2].ip_addr = MaxIp

\* C10: a fetch unit is running only while download_servers waits in
\* block_on(join_all): never during the sort and dedup, the merge or the save.
C10_NoUnitRunsPastTheJoin ==
    (\E i \in 1..Len(tasks) : tasks[i] = "running") => pc = "fetching"

\* Three units resolved, then their servers were merged and saved.
C10_Witness ==
    /\ pc = "done"
    /\ Len(tasks) = 3
    /\ \A i \in 1..Len(tasks) : tasks[i] = "resolved"
    /\ num_inserted > 0
    /\ \A k \in 1..Len(servers) : servers[k].id # 0

\* ---------------------------------------------------------------------
\* Properties of the server.met decoder
\* ---------------------------------------------------------------------
\* Every record of the file declares as many tags as it holds.
Declared(f) == \A i \in 1..Len(f.servers) : f.servers[i].tag_count = Len(f.servers[i].tags)

\* All of the file has arrived.
IsWhole(f) == f.cut = Len(EncodeFile(f))

\* The offset of record i of the file: behind the header byte, the server
\* count and the records before it.
RECURSIVE RecordOffset(_, _)
RecordOffset(f, i) ==
    IF i <= 1 THEN 5
    ELSE RecordOffset(f, i - 1)
         + (IF i - 1 <= Len(f.servers) THEN Len(EncodeServer(f.servers[i - 1])) ELSE 0)

\* What the bytes of record i decode to.
RecordResult(i) == ParseServer(urls[1], input, RecordOffset(met, i))

\* Record i is the first of the file that does not decode, and it fails.
FirstFailure(i) ==
    /\ RecordResult(i).kind = "err"
    /\ \A j \in 1..(i - 1) : RecordResult(j).kind = "ok"

WellFormed(f) ==
    LET r == ParseServers(urls[1], EncodeFile(f))
    IN  r.kind = "ok" /\ r.pos = Len(EncodeFile(f))

\* C12: every proper prefix of a well-formed file makes parse_servers
\* return an error: never a shorter list, never a panic.
C12_EveryProperPrefixFails ==
    (parsed # NotParsed /\ WellFormed(met) /\ met.cut < Len(EncodeFile(met))) =>
        parsed.kind = "err"

\* A file of MaxServers records arrived without its last byte, the last
\* byte of a string value.
C12_Witness ==
    /\ parsed.kind = "err"
    /\ WellFormed(met)
    /\ met.count = MaxServers
    /\ met.cut = Len(EncodeFile(met)) - 1
    /\ met.servers[MaxServers].tags[1].type = 2

\* The field a tag name stands for in the table of tag names, "none" for
\* a name that is not in it.
FieldOfName(t) ==
    IF t.form = "text"
    THEN CASE t.name = StrUsers    -> "user_count"
           [] t.name = StrLowUsers -> "low_id_user_count"
           [] t.name = StrFiles    -> "file_count"
           [] t.name = StrMaxUsers -> "max_user_count"
           [] t.name = StrCountry  -> "country"
           [] OTHER                -> "none"
    ELSE CASE t.name[1] = 1   -> "name"
           [] t.name[1] = 11  -> "description"
           [] t.name[1] = 12  -> "ping"
           [] t.name[1] = 13  -> "fail_count"
           [] t.name[1] = 14  -> "priority"
           [] t.name[1] = 133 -> "dns"
           [] t.name[1] = 135 -> "max_user_count"
           [] t.name[1] = 136 -> "soft_file_limit"
           [] t.name[1] = 137 -> "hard_file_limit"
           [] t.name[1] = 144 -> "last_ping_time"
           [] t.name[1] = 145 -> "version"
           [] t.name[1] = 146 -> "udp_flags"
           [] t.name[1] = 147 -> "aux_ports_list"
           [] t.name[1] = 148 -> "low_id_user_count"
           [] t.name[1] = 149 -> "udp_key"
           [] t.name[1] = 150 -> "udp_key_ip_addr"
           [] t.name[1] = 151 -> "tcp_obfuscation_port"
           [] t.name[1] = 152 -> "udp_obfuscation_port"
           [] OTHER           -> "none"

\* Tag j of record k has a name outside the table and a value of type 2 or 3.
IsUnknownTag(k, j) ==
    LET t == met.servers[k].tags[j]
    IN  FieldOfName(t) = "none" /\ t.type \in { 2, 3 }

\* The bytes of the name (when textual) and of the value (when a string) of
\* tag j of record k are UTF-8.
TextIsUtf8(k, j) ==
    LET t == met.servers[k].tags[j]
    IN  /\ t.form = "text" => Utf8From(t.name, 1)
        /\ t.type = 2 => Utf8From(t.value, 1)

\* The file without tag j of record k, the tag count of the record reduced
\* by one.
Without(f, k, j) ==
    LET tags == f.servers[k].tags
        rest == SubSeq(tags, 1, j - 1) \o SubSeq(tags, j + 1, Len(tags))
    IN  Whole([ f EXCEPT !.servers[k].tags = rest, !.servers[k].tag_count = Len(rest) ])

\* The file decodes to what the file without tag j of record k decodes to,
\* and the decoder has moved on by the bytes of that tag.
SameAsWithout(k, j) ==
    LET r == ParseServers(urls[1], EncodeFile(Without(met, k, j)))
    IN  /\ parsed.kind = r.kind
        /\ parsed.value = r.value
        /\ parsed.kind = "ok" => parsed.pos = r.pos + Len(EncodeTag(met.servers[k].tags[j]))

C14_ParseTagNeverPanics == parsed.kind # "panic"

\* C15: an input whose first byte is neither 0x0E nor 0xE0 comes to an
\* error, whatever follows the byte; the error is the one of the header
\* check and depends on that byte alone; it is never a panic.
C15_BadHeaderIsError ==
    (parsed # NotParsed /\ Len(input) > 0 /\ input[1] \notin { 14, 224 }) =>
        /\ parsed.kind = "err"
        /\ parsed.value = << "Header byte is not valid", input[1] >>

\* A file that is sound behind its first byte 0x0F was refused.
C15_Witness ==
    /\ parsed.kind = "err"
    /\ Len(input) > 5
    /\ input[1] = 15
    /\ IsWhole(met)
    /\ met.servers = << TestServer(<< LongTag(1, 2, << 65 >>) >>, 1) >>

\* The optional fields of ParsedServer.
OptionalFields ==
    { "name", "description", "user_count", "low_id_user_count", "ping", "country",
      "max_user_count", "file_count", "soft_file_limit", "hard_file_limit", "udp_flags",
      "version", "last_ping_time", "udp_key", "udp_key_ip_addr", "tcp_obfuscation_port",
      "udp_obfuscation_port", "dns", "priority", "aux_ports_list", "fail_count" }

\* C16: in a decoded record an optional field is present exactly when the
\* record carried a recognised tag for that field (a record of a name and a
\* description tag has these two and nothing else); the address and the
\* port are always those of the record.
C16_FieldPresentIffTagged ==
    (parsed.kind = "ok" /\ IsWhole(met) /\ Declared(met) /\ met.count = Len(met.servers)) =>
        \A i \in 1..Len(parsed.value) :
            /\ parsed.value[i].ip_addr = met.servers[i].ip_addr
            /\ parsed.value[i].port = met.servers[i].port
            /\ \A f \in OptionalFields :
                    parsed.value[i][f] # None <=>
                        \E j \in 1..Len(met.servers[i].tags) :
                            FieldOfName(met.servers[i].tags[j]) = f

\* A record of a name tag and a description tag decoded.
C16_Witness ==
    /\ parsed.kind = "ok"
    /\ IsWhole(met)
    /\ Len(met.servers) = 1
    /\ met.servers[1].tags = << LongTag(1, 2, << 65 >>), LongTag(11, 2, << 120, 121 >>) >>
    /\ parsed.value[1].name = Some(<< 65 >>)
    /\ parsed.value[1].description = Some(<< 120, 121 >>)
    /\ \A f \in OptionalFields \ { "name", "description" } : parsed.value[1][f] = None

\* Bit k of n.
Bit(n, k) == (n \div (2 ^ k)) % 2

\* The positions of the bits 0x73B: the flags a server can advertise.
KnownFlagPositions == { 0, 1, 3, 4, 5, 8, 9, 10 }

\* The file is one record with the one tag t, whole, behind a good header.
OneTagFile(t) ==
    /\ IsWhole(met)
    /\ met.header \in { 14, 224 }
    /\ met.count = 1
    /\ met.servers = << TestServer(<< t >>, 1) >>

\* C18: decoding a UdpFlags tag never fails: whatever the raw value, the
\* record decodes and its flags are the value masked to 0x73B: the known
\* bits as in the value, every other bit clear.
C18_UdpFlagsAreMasked ==
    \A v \in UdpFlagValues :
        (parsed # NotParsed /\ OneTagFile(ShortTag(146, 3, v))) =>
            /\ parsed.kind = "ok"
            /\ parsed.value[1].udp_flags # None
            /\ \A k \in 0..30 :
                    Bit(parsed.value[1].udp_flags[1], k)
                        = IF k \in KnownFlagPositions THEN Bit(v, k) ELSE 0

\* The raw value 6139 of the maximal fixture decoded to the eight flags.
C18_Witness ==
    /\ parsed.kind = "ok"
    /\ OneTagFile(ShortTag(146, 3, 6139))
    /\ parsed.value[1].udp_flags = Some(1851)

\* C19: a Preference tag (0x0E) with the wire value 0 decodes to the
\* priority Normal, with 1 to High and with 2 to Low.
C19_PreferenceWireValues ==
    \A v \in 0..2 :
        (parsed # NotParsed /\ OneTagFile(LongTag(14, 3, v))) =>
            /\ parsed.kind = "ok"
            /\ parsed.value[1].priority
                    = Some(CASE v = 0 -> "Normal" [] v = 1 -> "High" [] v = 2 -> "Low")

\* A Preference tag with the wire value 2 decoded to Low.
C19_Witness ==
    /\ parsed.kind = "ok"
    /\ OneTagFile(LongTag(14, 3, 2))
    /\ parsed.value[1].priority = Some("Low")

\* ---------------------------------------------------------------------
\* Properties of the refresh as a whole
\* ---------------------------------------------------------------------
\* C17 as stated: when the save of the merged collection fails, the
\* refresh ends with the error of save_all handed to its caller, and
\* nothing panics.
C17_SaveFailureIsReturned ==
    (last_op = "save" /\ pc # "done") => (pc = "failed" /\ error = "save_all")

\* What download_servers returns: Ok carries the list and nothing else.
DownloadServersResult == [ all_parsed_servers |-> all_parsed_servers ]

\* What a refresh reports: the counts of the info! line of
\* merge_parsed_servers.
RefreshReport == [ num_updated |-> num_updated, num_inserted |-> num_inserted ]

\* C20 as stated: download_servers returns with the list the counts of the
\* sources that succeeded and failed, the failed count being the number of
\* URLs whose fetch or decode failed, and the refresh reports a
\* failed-source count with the inserted and updated counts.
C20_SourceCountsAreReturned ==
    Returned =>
        /\ { "succeeded", "failed" } \subseteq DOMAIN DownloadServersResult
        /\ DownloadServersResult.failed = Cardinality({ i \in 1..Len(urls) : Fails(i) })
        /\ DownloadServersResult.succeeded = Cardinality({ i \in 1..Len(urls) : ~Fails(i) })
        /\ { "num_inserted", "num_updated", "failed" } \subseteq DOMAIN RefreshReport

\* What a record of the one tag t decodes to.
OneTagRecord(t) == ParseServer(urls[1], EncodeServer(TestServer(<< t >>, 1)), 0)

\* Tag j is the last tag of the record for its field.
IsLastFor(tags, j) ==
    \A l \in (j + 1)..Len(tags) : FieldOfName(tags[l]) # FieldOfName(tags[j])

\* C22: when a record carries several tags for one field (the same name
\* again, or two names of one field such as 0x87 and "maxusers", 0x94 and
\* "lowusers"), the decoded field holds the value of the last of them in
\* file order: what a record of that tag alone decodes to.
C22_LastTagWins ==
    (parsed.kind = "ok" /\ IsWhole(met) /\ Declared(met) /\ met.count = Len(met.servers)) =>
        \A i \in 1..Len(met.servers) :
            LET tags == met.servers[i].tags
            IN  \A j \in 1..Len(tags) :
                    (FieldOfName(tags[j]) # "none" /\ IsLastFor(tags, j)) =>
                        parsed.value[i][FieldOfName(tags[j])]
                            = OneTagRecord(tags[j]).value[FieldOfName(tags[j])]

\* A record with the tag 0x87 of 500 and then "maxusers" of 501 decoded to
\* a max_user_count of 501; one with 0x94 and then "lowusers", to 4.
C22_Witness ==
    /\ parsed.kind = "ok"
    /\ IsWhole(met)
    /\ Len(met.servers) = 1
    /\ \/ /\ met.servers[1].tags = << LongTag(135, 3, 500), TextTag(StrMaxUsers, 3, 501) >>
          /\ parsed.value[1].max_user_count = Some(501)
       \/ /\ met.servers[1].tags = << ShortTag(148, 3, 3), TextTag(StrLowUsers, 3, 4) >>
          /\ parsed.value[1].low_id_user_count = Some(4)

\* The recognised tags whose value is outside the range of their field: a
\* Preference of 3, obfuscation ports above 65535, and port lists with the
\* items "70000", " 47" and "-1".
OutOfRangeTags ==
    { LongTag(14, 3, 3), ShortTag(151, 3, 65536), ShortTag(152, 3, 2147483647),
      ShortTag(147, 2, << 55, 48, 48, 48, 48 >>), ShortTag(147, 2, << 52, 54, 44, 32, 52, 55 >>),
      ShortTag(147, 2, << 45, 49 >>) }

\* C30: a recognised tag whose value is outside the range of its field
\* makes the whole file fail, not that field alone: a file that decodes
\* without the tag comes to an error, and so to no record, with it.
C30_OutOfRangeFailsTheFile ==
    (parsed # NotParsed /\ IsWhole(met) /\ Declared(met) /\ met.count = Len(met.servers)) =>
        \A k \in 1..Len(met.servers) : \A j \in 1..Len(met.servers[k].tags) :
            ( /\ met.servers[k].tags[j] \in OutOfRangeTags
              /\ ParseServers(urls[1], EncodeFile(Without(met, k, j))).kind = "ok" ) =>
                parsed.kind = "err"

\* The second record of a file carried an obfuscation port of 65536 behind
\* a first record that decodes: the file was refused.
C30_Witness ==
    /\ parsed.kind = "err"
    /\ parsed.value = << "TryFromIntError", 0 >>
    /\ IsWhole(met)
    /\ met.header = 14
    /\ met.count = 2
    /\ Len(met.servers) = 2
    /\ met.servers[2].tags = << ShortTag(151, 3, 65536) >>
    /\ RecordResult(1).kind = "ok"

\* ---------------------------------------------------------------------
\* Further properties of the merge engine
\* ---------------------------------------------------------------------
\* C23 as stated: a merge handed a batch in which two candidates share an
\* IP reports a MergeInvariantViolation.
C23_DuplicateIpIsReported ==
    [][ (IsMergeStep /\ ~DistinctIps(last_batch')) =>
            error' = "MergeInvariantViolation" ]_vars

\* C26: a merge removes no server and changes no server's IP or position;
\* it leaves id, active, created and updated of every existing server as
\* they were, and a server whose IP is not in the batch entirely unchanged.
C26_MergeFrame ==
    [][ IsMergeStep =>
            /\ Len(servers') >= Len(servers)
            /\ \A k \in 1..Len(servers) :
                /\ servers'[k].ip_addr = servers[k].ip_addr
                /\ servers'[k].id = servers[k].id
                /\ servers'[k].active = servers[k].active
                /\ servers'[k].created = servers[k].created
                /\ servers'[k].updated = servers[k].updated
                /\ (\A i \in 1..Len(last_batch') : last_batch'[i].ip_addr # servers[k].ip_addr)
                        => servers'[k] = servers[k] ]_vars

\* Of two stored servers the second, inactive and with id 2, was matched
\* and overwritten by a candidate; the first was not in the batch.
C26_Witness ==
    /\ last_op = "merge"
    /\ num_updated = 1
    /\ num_inserted = 0
    /\ Len(servers) = 2
    /\ servers[1] = StoredServer(2, 1)
    /\ servers[2].id = 2
    /\ servers[2].active = FALSE
    /\ servers[2].created = 0
    /\ servers[2].name # Some("old")

\* ---------------------------------------------------------------------
\* Properties of save_all
\* ---------------------------------------------------------------------
\* C27 as stated: whatever merges and saves have run, a save that failed
\* part-way and was rolled back included, an in-memory server has a
\* non-zero id only if a row with that id is committed in the server table.
C27_IdsAreCommitted ==
    \A k \in 1..Len(servers) :
        servers[k].id # 0 => \E row \in table : row.id = servers[k].id

\* C28: persisting a server's priority and loading it back yields the same
\* priority: every server the next run loads has the priority it was saved
\* with, for each of Low, Normal and High.
C28_PriorityRoundTrip ==
    [][ LoadServers =>
            \A k \in 1..Len(servers') :
                \A j \in 1..Len(servers) :
                    servers[j].id = servers'[k].id =>
                        servers'[k].priority = servers[j].priority ]_vars

\* ---------------------------------------------------------------------
\* Termination of download_servers
\* ---------------------------------------------------------------------
\* C24: when every fetch unit resolves, the wait of download_servers ends:
\* from the moment the tasks are spawned, block_on(join_all) returns in the
\* end, and when it has returned no task is running, the slowest included.
\* What is left of download_servers is the flatten, sort and dedup.
C24_DownloadReturnsAfterTheSlowest ==
    (pc = "fetching") ~> (pc = "aggregating" /\ \A i \in 1..Len(tasks) : tasks[i] = "resolved")

\* The join has returned after three units, of which the first spawned
\* resolved last.
C24_Witness ==
    /\ pc = "aggregating"
    /\ Len(tasks) = 3
    /\ Len(completion) = 3
    /\ completion[3] = 1
    /\ \A i \in 1..Len(tasks) : tasks[i] = "resolved"

\* ---------------------------------------------------------------------
\* Properties of the Configuration Manager
\* ---------------------------------------------------------------------
\* The step handles a command, and the command is cmd with this result.
Handles(cmd, result) ==
    /\ handled' # handled
    /\ handled'[Len(handled')] = [ cmd |-> cmd, result |-> result ]

HandlesStart == handled' # handled /\ handled'[Len(handled')].cmd = "Start"

NoStartHandled == \A k \in 1..Len(handled) : handled[k].cmd # "Start"

EventNames ==
    << "SettingsChange", "AddressListChange", "TempDirectoryListChange",
       "ServerListChange", "InitComplete" >>

\* C21: no event is emitted before a Start is handled and none by a step
\* that handles no Start; a Start that succeeds emits exactly
\* SettingsChange, AddressListChange, TempDirectoryListChange,
\* ServerListChange and InitComplete in this order, after the refresh, if
\* there was one, has finished: ServerListChange carries the server list
\* as the refresh left it.
C21_EventsOfStart ==
    /\ [](NoStartHandled => events = << >>)
    /\ [][ /\ ~HandlesStart => events' = events
           /\ Handles("Start", "ok") =>
                /\ Len(events') = Len(events) + 5
                /\ SubSeq(events', 1, Len(events)) = events
                /\ \A k \in 1..5 : events'[Len(events) + k].name = EventNames[k]
                /\ events'[Len(events) + 4].payload = << servers' >>
                /\ pc' \in { "idle", "done" } ]_vars

\* Two Starts have succeeded, the second after a refresh that inserted or
\* updated servers.
C21_Witness ==
    /\ Len(events) = 10
    /\ Len(handled) = 2
    /\ pc = "done"
    /\ num_inserted + num_updated > 0
    /\ events[10].name = "InitComplete"

\* C25: a Start refreshes the server list only when auto_update_server_list
\* is set and an address of the list start works on is active; the URLs
\* handed to download_servers are URLs of active addresses; a Start that
\* does not refresh leaves the server list and the server table as they
\* were.
C25_RefreshOnlyFromActiveAddresses ==
    [][ HandlesStart =>
            /\ urls' # << >> =>
                    /\ settings.auto_update_server_list
                    /\ \E k \in 1..Len(addresses') : addresses'[k].active
            /\ \A i \in 1..Len(urls') :
                    \E k \in 1..Len(addresses') :
                        addresses'[k].url = urls'[i] /\ addresses'[k].active
            /\ ~(settings.auto_update_server_list
                    /\ \E k \in 1..Len(addresses') : addresses'[k].active) =>
                    (servers' = servers /\ table' = table) ]_vars

\* A Start has refreshed the list from the one active address of two.
C25_Witness ==
    /\ Len(handled) = 1
    /\ handled[1] = [ cmd |-> "Start", result |-> "ok" ]
    /\ Len(addresses) = 2
    /\ ~addresses[1].active
    /\ addresses[2].active
    /\ urls = << addresses[2].url >>
    /\ num_inserted > 0

\* C29: the commands handled are the first of the commands sent, in the
\* order of sending, the rest is still in the channel; no command is
\* handled after a Stop or after a command whose handling failed.
C29_HandledIsAPrefixOfSent ==
    /\ Len(handled) <= Len(sent)
    /\ \A k \in 1..Len(handled) : handled[k].cmd = sent[k]
    /\ commands = SubSeq(sent, Len(handled) + 1, Len(sent))
    /\ \A k \in 1..(Len(handled) - 1) :
            handled[k].cmd # "Stop" /\ handled[k].result = "ok"

\* A Start was sent behind a Stop; the Stop was handled and the Start is
\* left in the channel.
C29_Witness ==
    /\ mgr = "stopped"
    /\ handled = << [ cmd |-> "Stop", result |-> "shutdown" ] >>
    /\ commands = << "Start" >>

====
